---- MODULE Spec2Model ----
(***************************************************************************)
(* Selection and refresh engine of stremio-shufflist: ConfigStore,         *)
(* CatalogService and ListService, as a state machine.                     *)
(*                                                                         *)
(* Objects live in two heaps (listObj, slotObj) addressed by object        *)
(* references, because a suspended refreshSlot keeps references to the     *)
(* slot and list objects it read before its fetch, whatever happens to     *)
(* data.slots and data.lists meanwhile.  A top-level operation is          *)
(* suspended only at an adapter call (a fetch or a validation); the        *)
(* "await ConfigStore.saveConfig()" of the code resolves in the same       *)
(* microtask drain, so the code up to the next adapter call runs as one    *)
(* step.                                                                   *)
(***************************************************************************)
EXTENDS Integers, Sequences, FiniteSets, TLC

(***************************************************************************)
(* Bounds of the model.                                                    *)
(***************************************************************************)
MaxLists == 3      \* list objects alive at once
MaxSlots == 2      \* slot objects alive at once
MaxCalls == 2      \* top-level operations in flight at once
MaxOps   == 2      \* top-level operations started in one behaviour
MaxClock == 1      \* ticks of Date.now() after start-up
MaxItems == 1      \* items an adapter returns
MaxHours == 3      \* hours the wall clock goes on for after start-up

(***************************************************************************)
(* Program constants.                                                      *)
(***************************************************************************)
DEFAULT_ITEM_LIMIT == 50
DEFAULT_REFRESH_INTERVAL_HOURS == 24

MOVIE  == "movie"
SERIES == "series"
ContentType == {MOVIE, SERIES}

TRAKT_USER_LIST == "trakt_user_list"
DEFAULT_LIST    == "default_list"
MDBLIST_LIST    == "mdblist_list"
PLEX_COLLECTION == "plex_collection"
SourceType == {TRAKT_USER_LIST, DEFAULT_LIST, MDBLIST_LIST, PLEX_COLLECTION}

(***************************************************************************)
(* Generic helpers.                                                        *)
(***************************************************************************)
Range(s) == {s[i] : i \in DOMAIN s}

Min(a, b) == IF a <= b THEN a ELSE b

\* Array.prototype.filter with the predicate "is a member of S"
RECURSIVE FilterSeq(_, _)
FilterSeq(s, S) ==
    IF s = <<>> THEN <<>>
    ELSE IF Head(s) \in S THEN <<Head(s)>> \o FilterSeq(Tail(s), S)
         ELSE FilterSeq(Tail(s), S)

\* Array.prototype.splice(i, 1) (1-based here)
RemoveAt(s, i) == SubSeq(s, 1, i - 1) \o SubSeq(s, i + 1, Len(s))

\* String.prototype.includes on a message given as its sequence of words
Includes(msg, word) == \E i \in DOMAIN msg : msg[i] = word

(***************************************************************************)
(* State.                                                                  *)
(***************************************************************************)
VARIABLES
    now,        \* Date.now()
    listObj,    \* heap of SourceList objects: reference -> record
    lists,      \* ConfigStore.data.lists: sequence of references
    slotObj,    \* heap of CatalogSlot objects: reference -> record
    slots,      \* ConfigStore.data.slots: sequence of references
    disk,       \* content of config/data.json
    calls,      \* the top-level operations in flight
    ops,        \* top-level operations that may still start
    served,     \* the latest answer to a catalog request, if any
    settings,   \* ConfigStore.data.settings
    job,        \* SchedulerService.job: the handle of the scheduled job, if any
    jobs,       \* node-schedule: the jobs that are scheduled, by their identity
    lastRunTime,\* SchedulerService.lastRunTime
    hour,       \* the wall clock, in hours from a midnight
    writable    \* whether writing config/data.json succeeds at present

vars == <<now, listObj, lists, slotObj, slots, disk, calls, ops, served,
          settings, job, jobs, lastRunTime, hour, writable>>

\* the state of the scheduler and its clock
schedVars == <<job, jobs, lastRunTime, hour>>

ListRefs == 1..MaxLists
SlotRefs == 1..MaxSlots
CallIds  == DOMAIN calls

(***************************************************************************)
(* Data model (ConfigStore).  An optional field is a sequence of length 0  *)
(* or 1; the empty string stands for an undefined or empty string, both    *)
(* falsy in the code.  An id is the number that Date.now().toString()      *)
(* prints, the printing being one-to-one.                                  *)
(***************************************************************************)
SourceList(id, alias, type, contentType, config, shuffle, limit, group) ==
    [id |-> id, alias |-> alias, type |-> type, contentType |-> contentType,
     config |-> config, shuffle |-> shuffle, limit |-> limit, group |-> group]

CatalogSlot(id, alias, type, listIds, currentSelection) ==
    [id |-> id, alias |-> alias, type |-> type, listIds |-> listIds,
     currentSelection |-> currentSelection]

\* the in-memory configuration as one value
Mem(L, LO, S, SO, ST) ==
    [lists |-> L, listObj |-> LO, slots |-> S, slotObj |-> SO, settings |-> ST]

mem == Mem(lists, listObj, slots, slotObj, settings)

AppSettings(refreshIntervalHours, defaultItemLimit) ==
    [refreshIntervalHours |-> refreshIntervalHours, defaultItemLimit |-> defaultItemLimit]

\* the settings of a configuration that has none
DefaultSettings == AppSettings(DEFAULT_REFRESH_INTERVAL_HOURS, DEFAULT_ITEM_LIMIT)

\* JSON.stringify(this.data): the arrays with the objects' current values
Serialize(m) ==
    [lists |-> [i \in DOMAIN m.lists |-> m.listObj[m.lists[i]]],
     slots |-> [i \in DOMAIN m.slots |-> m.slotObj[m.slots[i]]],
     settings |-> m.settings]

\* ConfigStore.saveConfig: writes the whole configuration; an error of
\* mkdirSync or writeFileSync is caught and logged, the file staying as it was
saveConfig(m) == IF writable THEN Serialize(m) ELSE disk

\* "x || ContentType.MOVIE"
OrMovie(t) == IF t = "" THEN MOVIE ELSE t

\* the slot.currentSelection?.sourceId test of the code
HasSelection(slot) ==
    /\ slot.currentSelection # <<>>
    /\ slot.currentSelection[1].sourceId # 0

SourceIdOf(slot) == slot.currentSelection[1].sourceId

(***************************************************************************)
(* CatalogService.createHeaderItem, formatFailReason.                      *)
(***************************************************************************)
HeaderPrefix == "shufflist_header"

createHeaderItem(slot, listName, time) ==
    [id          |-> <<HeaderPrefix, slot.id, time>>,
     type        |-> MOVIE,
     name        |-> listName,
     description |-> <<"Currently displaying: ", listName>>]

\* variant: the tests for "empty" and "Missing" made before those for the codes
formatFailReasonTextFirst(message) ==
    IF Includes(message, "empty") THEN "was empty"
    ELSE IF Includes(message, "Missing") THEN "invalid config"
    ELSE IF Includes(message, "404") THEN "not found"
    ELSE IF Includes(message, "401") \/ Includes(message, "403") THEN "access denied"
    ELSE "unreachable"

formatFailReason(message) ==
    IF Includes(message, "404") THEN "not found"
    ELSE IF Includes(message, "401") \/ Includes(message, "403") THEN "access denied"
    ELSE IF Includes(message, "empty") THEN "was empty"
    ELSE IF Includes(message, "Missing") THEN "invalid config"
    ELSE "unreachable"

(***************************************************************************)
(* CatalogService.fetchListItems, split at its await.  FetchRequest is     *)
(* what the function has read from the list when it suspends in the        *)
(* adapter call; FetchFinish is the rest of the function, run on the       *)
(* adapter's answer.  The adapter's answer is given already normalised.    *)
(***************************************************************************)
FetchRequest(list) ==
    LET limit == IF list.limit # 0 THEN list.limit ELSE DEFAULT_ITEM_LIMIT
        imdb  == list.type = DEFAULT_LIST /\ list.config.listType = "imdb_top"
    IN  [type     |-> list.type,
         imdb     |-> imdb,
         limit    |-> limit,
         listName |-> IF list.type = TRAKT_USER_LIST THEN list.alias
                      ELSE IF imdb
                           THEN IF list.contentType = SERIES
                                THEN "IMDB Top 250 Series"
                                ELSE "IMDB Top 250 Movies"
                           ELSE "Random List"]

\* variant: the loop copies items[j] to items[i] without the swap
RECURSIVE FisherYatesCopy(_, _, _)
FisherYatesCopy(items, i, js) ==
    IF i <= 1 THEN items
    ELSE FisherYatesCopy([items EXCEPT ![i] = items[js[i]]], i - 1, js)

\* the Fisher-Yates loop; js[i] is the index drawn at position i
RECURSIVE FisherYates(_, _, _)
FisherYates(items, i, js) ==
    IF i <= 1 THEN items
    ELSE LET j == js[i]
             swapped == [items EXCEPT ![i] = items[j], ![j] = items[i]]
         IN  FisherYates(swapped, i - 1, js)

\* the draws the loop can make on n items
Draws(n) == {js \in [2..n -> 1..n] : \A i \in 2..n : js[i] <= i}

FetchFinish(list, req, answer, js) ==
    LET listName ==
            IF req.type = TRAKT_USER_LIST \/ req.imdb THEN req.listName
            ELSE IF req.type = DEFAULT_LIST
                 THEN IF list.config.listTypeLabel # ""
                      THEN list.config.listTypeLabel ELSE "List"
                 ELSE IF req.type \in {MDBLIST_LIST, PLEX_COLLECTION}
                      THEN list.alias
                      ELSE req.listName
        items == IF req.imdb
                 THEN SubSeq(answer, 1, Min(req.limit, Len(answer)))
                 ELSE answer
    IN  [items    |-> IF list.shuffle THEN FisherYates(items, Len(items), js)
                      ELSE items,
         listName |-> listName]

(***************************************************************************)
(* CatalogService.refreshSlot up to its first adapter call: the candidate  *)
(* lists, the exclusivity filter and the selection pool, computed on the   *)
(* in-memory configuration m.                                              *)
(***************************************************************************)
\* ConfigStore.getSlots().find(s => s.id === slotId), as an optional reference
FindSlot(m, slotId) ==
    LET found == FilterSeq(m.slots, {r \in Range(m.slots) : m.slotObj[r].id = slotId})
    IN  IF found = <<>> THEN <<>> ELSE <<Head(found)>>

\* lists.find(l => l.id === id)?.group
GroupOfId(m, id) ==
    LET found == FilterSeq(m.lists, {r \in Range(m.lists) : m.listObj[r].id = id})
    IN  IF found = <<>> THEN "" ELSE m.listObj[Head(found)].group

\* variant: the lists of the slot's listIds, whatever their type
availableListsOfAnyType(m, slot) ==
    FilterSeq(m.lists, {r \in Range(m.lists) : m.listObj[r].id \in m.slotObj[slot].listIds})

\* variant: the lists of the slot's type, whatever its listIds
availableListsOfType(m, slot) ==
    FilterSeq(m.lists,
              {r \in Range(m.lists) :
                  OrMovie(m.listObj[r].contentType) = OrMovie(m.slotObj[slot].type)})

availableLists(m, slot) ==
    FilterSeq(m.lists,
              {r \in Range(m.lists) :
                  /\ m.listObj[r].id \in m.slotObj[slot].listIds
                  /\ OrMovie(m.listObj[r].contentType) = OrMovie(m.slotObj[slot].type)})

\* variant: the selection of the slot being refreshed counts as well
AllActiveSlots(m, slotId) ==
    {r \in Range(m.slots) : HasSelection(m.slotObj[r])}

\* the slots whose selection counts as active elsewhere
OtherActiveSlots(m, slotId) ==
    {r \in Range(m.slots) : m.slotObj[r].id # slotId /\ HasSelection(m.slotObj[r])}

activeListIds(m, slotId) ==
    {SourceIdOf(m.slotObj[r]) : r \in OtherActiveSlots(m, slotId)}

activeGroups(m, slotId) ==
    {GroupOfId(m, id) : id \in activeListIds(m, slotId)} \ {""}

\* variant: the filter with Rule A (active list ids) alone
candidatesNoGroupRule(m, slot) ==
    LET slotId == m.slotObj[slot].id
    IN  FilterSeq(availableLists(m, slot),
                  {r \in Range(m.lists) : m.listObj[r].id \notin activeListIds(m, slotId)})

\* variant: the filter with Rule B (active groups) alone
candidatesNoIdRule(m, slot) ==
    LET slotId == m.slotObj[slot].id
    IN  FilterSeq(availableLists(m, slot),
                  {r \in Range(m.lists) :
                      ~ (m.listObj[r].group # ""
                         /\ m.listObj[r].group \in activeGroups(m, slotId))})

\* Rule A: not active in another slot; Rule B: its group not active in another slot
candidates(m, slot) ==
    LET slotId == m.slotObj[slot].id
    IN  FilterSeq(availableLists(m, slot),
                  {r \in Range(m.lists) :
                      /\ m.listObj[r].id \notin activeListIds(m, slotId)
                      /\ ~ (m.listObj[r].group # ""
                            /\ m.listObj[r].group \in activeGroups(m, slotId))})

\* variant: no fallback to the unfiltered lists
selectionPoolNoFallback(m, slot) == candidates(m, slot)

selectionPool(m, slot) ==
    IF candidates(m, slot) # <<>> THEN candidates(m, slot) ELSE availableLists(m, slot)

\* refreshSlot returns undefined before any adapter call
ReturnsAtOnce(m, slotId) ==
    \/ FindSlot(m, slotId) = <<>>
    \/ availableLists(m, FindSlot(m, slotId)[1]) = <<>>

(***************************************************************************)
(* The frame of a refreshSlot call: its local variables, and two logs:     *)
(* tried, the lists it has called the adapter for ("trying list ..."), and *)
(* failures, what its catch block has reported ("Failed to fetch list").   *)
(***************************************************************************)
NoFrame ==
    [slot |-> 0, pool |-> <<>>, randomIndex |-> 0, attempts |-> 0,
     lastError |-> <<>>, firstFailedName |-> "", firstFailReason |-> "",
     req |-> <<>>, tried |-> <<>>, failures |-> <<>>,
     availableLists |-> <<>>, candidates |-> <<>>, selectionPool |-> <<>>]

\* the loop of refreshSlot draws randomIndex and calls fetchListItems
Attempt(m, frame, randomIndex) ==
    [frame EXCEPT !.randomIndex = randomIndex,
                  !.req = <<FetchRequest(m.listObj[frame.pool[randomIndex]])>>,
                  !.tried = Append(@, frame.pool[randomIndex])]

\* refreshSlot(slotId) when it enters its loop
LoopEntry(m, slotId) ==
    LET slot == FindSlot(m, slotId)[1]
    IN  [NoFrame EXCEPT !.slot = slot,
                        !.availableLists = availableLists(m, slot),
                        !.candidates = candidates(m, slot),
                        !.selectionPool = selectionPool(m, slot),
                        !.pool = selectionPool(m, slot)]

randomList(frame) == frame.pool[frame.randomIndex]

(***************************************************************************)
(* Results.                                                                *)
(***************************************************************************)
Undefined == [kind |-> "undefined"]

AllListsFailed == <<"All", "lists", "failed">>

\* variant: the retry metadata taken from the latest failure
SuccessResultLast(frame, fetched) ==
    LET n == Len(frame.failures)
    IN  [kind           |-> "refresh",
         success        |-> TRUE,
         listName       |-> fetched.listName,
         retried        |-> frame.attempts > 0,
         isEmpty        |-> Len(fetched.items) = 0,
         failedListName |-> IF n = 0 THEN "" ELSE frame.failures[n].alias,
         failReason     |-> IF n = 0 THEN ""
                            ELSE formatFailReason(frame.failures[n].message)]

\* variant: isEmpty computed after the header item was put in front
SuccessResultHeaderCounted(frame, fetched) ==
    [kind           |-> "refresh",
     success        |-> TRUE,
     listName       |-> fetched.listName,
     retried        |-> frame.attempts > 0,
     isEmpty        |-> Len(<<fetched.listName>> \o fetched.items) = 0,
     failedListName |-> frame.firstFailedName,
     failReason     |-> frame.firstFailReason]

\* the object refreshSlot returns after a successful fetch
SuccessResult(frame, fetched) ==
    [kind           |-> "refresh",
     success        |-> TRUE,
     listName       |-> fetched.listName,
     retried        |-> frame.attempts > 0,
     isEmpty        |-> Len(fetched.items) = 0,
     failedListName |-> frame.firstFailedName,
     failReason     |-> frame.firstFailReason]

\* variant: the error taken from the latest failure
FailureResultLast(frame) ==
    [kind    |-> "refresh",
     success |-> FALSE,
     error   |-> IF frame.failures # <<>>
                 THEN frame.failures[Len(frame.failures)].message
                 ELSE AllListsFailed]

\* the object refreshSlot returns when the pool is exhausted
FailureResult(frame) ==
    [kind    |-> "refresh",
     success |-> FALSE,
     error   |-> IF frame.lastError # <<>> THEN frame.lastError ELSE AllListsFailed]

\* variant: the selection stored without a header item
CommitNoHeader(m, frame, fetched, time) ==
    LET list == m.listObj[randomList(frame)]
        sel  == [name       |-> fetched.listName,
                 sourceType |-> list.type,
                 sourceId   |-> list.id,
                 items      |-> fetched.items]
    IN  [m EXCEPT !.slotObj[frame.slot].currentSelection = <<sel>>]

\* variant: the commit puts a slot that is no longer in data.slots back
CommitReinserting(m, frame, fetched, time) ==
    LET list   == m.listObj[randomList(frame)]
        slot   == m.slotObj[frame.slot]
        header == createHeaderItem(slot, fetched.listName, time)
        sel    == [name       |-> fetched.listName,
                   sourceType |-> list.type,
                   sourceId   |-> list.id,
                   items      |-> <<header>> \o fetched.items]
    IN  [m EXCEPT !.slotObj[frame.slot].currentSelection = <<sel>>,
                  !.slots = IF frame.slot \in Range(m.slots) THEN m.slots
                            ELSE Append(m.slots, frame.slot)]

\* the assignment to slot.currentSelection
Commit(m, frame, fetched, time) ==
    LET list   == m.listObj[randomList(frame)]
        slot   == m.slotObj[frame.slot]
        header == createHeaderItem(slot, fetched.listName, time)
        sel    == [name       |-> fetched.listName,
                   sourceType |-> list.type,
                   sourceId   |-> list.id,
                   items      |-> <<header>> \o fetched.items]
    IN  [m EXCEPT !.slotObj[frame.slot].currentSelection = <<sel>>]

\* variant: the slot's selection dropped when the pool is exhausted
ExhaustedClears(m, frame) ==
    [m EXCEPT !.slotObj[frame.slot].currentSelection = <<>>]

\* the configuration when the loop ends with the pool exhausted: as it was
Exhausted(m, frame) == m

\* variant: the catch block without the splice
CaughtNoSplice(m, frame, message) ==
    LET first == frame.attempts = 0
    IN  [frame EXCEPT
            !.lastError       = IF first THEN message ELSE @,
            !.firstFailedName = IF first THEN m.listObj[randomList(frame)].alias ELSE @,
            !.firstFailReason = IF first THEN formatFailReason(message) ELSE @,
            !.failures        = Append(@, [list    |-> randomList(frame),
                                           alias   |-> m.listObj[randomList(frame)].alias,
                                           message |-> message]),
            !.attempts        = @ + 1]

\* variant: when the pool runs out, the lists the filter had removed are tried
CaughtWidening(m, frame, message) ==
    LET first == frame.attempts = 0
        rest  == RemoveAt(frame.pool, frame.randomIndex)
    IN  [frame EXCEPT
            !.lastError       = IF first THEN message ELSE @,
            !.firstFailedName = IF first THEN m.listObj[randomList(frame)].alias ELSE @,
            !.firstFailReason = IF first THEN formatFailReason(message) ELSE @,
            !.failures        = Append(@, [list    |-> randomList(frame),
                                           alias   |-> m.listObj[randomList(frame)].alias,
                                           message |-> message]),
            !.pool            = IF rest # <<>> THEN rest
                                ELSE FilterSeq(frame.availableLists,
                                               Range(frame.availableLists) \ Range(frame.tried)),
            !.attempts        = @ + 1]

\* variant: the failed list goes to the end of the pool instead of leaving it
CaughtRequeue(m, frame, message) ==
    LET first == frame.attempts = 0
    IN  [frame EXCEPT
            !.lastError       = IF first THEN message ELSE @,
            !.firstFailedName = IF first THEN m.listObj[randomList(frame)].alias ELSE @,
            !.firstFailReason = IF first THEN formatFailReason(message) ELSE @,
            !.failures        = Append(@, [list    |-> randomList(frame),
                                           alias   |-> m.listObj[randomList(frame)].alias,
                                           message |-> message]),
            !.pool            = Append(RemoveAt(@, frame.randomIndex), randomList(frame)),
            !.attempts        = @ + 1]

\* the catch block of the loop
Caught(m, frame, message) ==
    LET first == frame.attempts = 0
    IN  [frame EXCEPT
            !.lastError       = IF first THEN message ELSE @,
            !.firstFailedName = IF first THEN m.listObj[randomList(frame)].alias ELSE @,
            !.firstFailReason = IF first THEN formatFailReason(message) ELSE @,
            !.failures        = Append(@, [list    |-> randomList(frame),
                                           alias   |-> m.listObj[randomList(frame)].alias,
                                           message |-> message]),
            !.pool            = RemoveAt(@, frame.randomIndex),
            !.attempts        = @ + 1]

(***************************************************************************)
(* Top-level operations in flight.  A call is suspended in an adapter      *)
(* call: pc = "fetch" inside refreshSlot, pc = "validate" inside           *)
(* validateList.  queue holds the ids of the slots the operation has still *)
(* to pass to refreshSlot, the head being the one underway; results holds  *)
(* what its refreshSlot calls have returned, with the slot ids (the        *)
(* results array of refreshAllSlots); last is the value the latest         *)
(* refreshSlot returned; obj is the object the operation works on.         *)
(***************************************************************************)
IdleCall ==
    [op |-> "", pc |-> "idle", frame |-> NoFrame, queue |-> <<>>,
     results |-> <<>>, last |-> Undefined, obj |-> 0, updates |-> <<>>,
     result |-> Undefined]

NewCall(op, queue) == [IdleCall EXCEPT !.op = op, !.queue = queue]

\* what the operation returns to its caller once its refreshes are over
Finish(m, call) ==
    [call EXCEPT
        !.pc = "done",
        !.result =
            CASE call.op = "refreshSlot"     -> call.last
              [] call.op = "refreshAllSlots" -> [kind |-> "batch", results |-> call.results]
              [] call.op = "addSlot"         -> [kind |-> "slot", value |-> m.slotObj[call.obj]]
              [] call.op = "updateSlot"      -> call.last
              [] call.op = "updateList"      -> [kind |-> "list", value |-> m.listObj[call.obj]]
              [] OTHER                       -> Undefined]

\* refreshSlot(Head(queue)) has returned r: results.push({...result, slotId})
Returned(call, r) ==
    [call EXCEPT
        !.last = r,
        !.results = Append(@, [slotId |-> Head(call.queue), result |-> r]),
        !.queue = Tail(@)]

\* the operation calls refreshSlot for the slots of its queue in turn, until
\* one of the calls suspends in a fetch or the queue is empty
\* (m0 and call0 are evaluated once, as arguments are in the program)
RECURSIVE RunQueue(_, _)
RunQueue(m0, call0) ==
    UNION {LET m    == arg[1]
               call == arg[2]
           IN  IF call.queue = <<>> THEN {Finish(m, call)}
               ELSE IF ReturnsAtOnce(m, Head(call.queue))
                    THEN RunQueue(m, Returned(call, Undefined))
                    ELSE LET frame == LoopEntry(m, Head(call.queue))
                         IN  IF frame.pool = <<>>
                             THEN RunQueue(m, Returned([call EXCEPT !.frame = frame],
                                                       FailureResult(frame)))
                             ELSE {[call EXCEPT !.pc = "fetch",
                                                !.frame = Attempt(m, frame, i)] :
                                       i \in 1..Len(frame.pool)}
             : arg \in {<<m0, call0>>}}

(***************************************************************************)
(* Heaps: an object stays as long as data.lists / data.slots or a          *)
(* suspended call refers to it.                                            *)
(***************************************************************************)
ListsInUse(L, C) ==
    Range(L) \cup UNION {Range(C[c].frame.pool) \cup Range(C[c].frame.tried)
                                \cup Range(C[c].frame.availableLists) : c \in DOMAIN C}
             \cup {C[c].obj : c \in {d \in DOMAIN C : C[d].op = "updateList"}}

SlotsInUse(S, C) ==
    Range(S) \cup {C[c].frame.slot : c \in DOMAIN C}
             \cup {C[c].obj : c \in {d \in DOMAIN C : C[d].op = "addSlot"}}

Restrict(f, S) == [x \in DOMAIN f \cap S |-> f[x]]

\* the step's effect on the configuration m, the file d and the calls C
Store(m, d, C) ==
    /\ lists' = m.lists
    /\ slots' = m.slots
    /\ listObj' = Restrict(m.listObj, ListsInUse(m.lists, C))
    /\ slotObj' = Restrict(m.slotObj, SlotsInUse(m.slots, C))
    /\ settings' = m.settings
    /\ disk' = d
    /\ calls' = C
    /\ served' = served
    /\ writable' = writable

\* the effect of a step that leaves the scheduler alone
Effect(m, d, C) == Store(m, d, C) /\ UNCHANGED schedVars

\* the call record a new top-level operation takes
FreeCall == CHOOSE c \in CallIds : calls[c].pc = "idle" /\ \A d \in 1..(c - 1) : calls[d].pc # "idle"

\* a finished operation hands its result over at once
NoneDone == \A c \in CallIds : calls[c].pc # "done"

CanStart == NoneDone /\ ops > 0 /\ \E c \in CallIds : calls[c].pc = "idle"

(***************************************************************************)
(* The environment: what an adapter can answer, and the inputs of the      *)
(* operations.                                                             *)
(***************************************************************************)
Item(k) == [id |-> <<"tt", k>>, type |-> MOVIE, name |-> <<"title", k>>]

\* the normalised item sequences an adapter call can resolve to
Answers == {[i \in 1..n |-> Item(i)] : n \in 0..MaxItems}

\* the error messages an adapter call can reject with
Messages == {<<"Request", "failed", "404">>, <<"timeout">>}

Groups == {"", "g"}

SlotIds(m) == {m.slotObj[r].id : r \in Range(m.slots)}
ListIds(m) == {m.listObj[r].id : r \in Range(m.lists)}

(***************************************************************************)
(* CatalogService.refreshSlot as a top-level operation (POST               *)
(* /slots/:id/refresh).                                                    *)
(***************************************************************************)
RefreshSlot(slotId) ==
    /\ CanStart
    /\ \E call \in RunQueue(mem, NewCall("refreshSlot", <<slotId>>)) :
          Effect(mem, disk, [calls EXCEPT ![FreeCall] = call])
    /\ ops' = ops - 1
    /\ UNCHANGED now

\* fetchListItems rejects: the catch block, then the loop goes on or ends
FetchFail(c, message) ==
    /\ NoneDone
    /\ calls[c].pc = "fetch"
    /\ LET frame == Caught(mem, calls[c].frame, message)
       IN  IF frame.pool # <<>>
           THEN \E i \in 1..Len(frame.pool) :
                   Effect(mem, disk,
                          [calls EXCEPT ![c].frame = Attempt(mem, frame, i)])
           ELSE LET m1   == Exhausted(mem, frame)
                    call == Returned([calls[c] EXCEPT !.frame = frame],
                                     FailureResult(frame))
                IN  \E next \in RunQueue(m1, call) :
                       Effect(m1, disk, [calls EXCEPT ![c] = next])
    /\ UNCHANGED <<now, ops>>

\* variant: the caller's next refreshSlot has read the configuration before
\* this commit
FetchOkStale(c, answer, js) ==
    /\ NoneDone
    /\ calls[c].pc = "fetch"
    /\ LET frame   == calls[c].frame
           fetched == FetchFinish(listObj[randomList(frame)], frame.req[1], answer, js)
           m1      == Commit(mem, frame, fetched, now)
           call    == Returned(calls[c], SuccessResult(frame, fetched))
       IN  \E next \in RunQueue(mem, call) :
              Effect(m1, saveConfig(m1), [calls EXCEPT ![c] = next])
    /\ UNCHANGED <<now, ops>>

\* variant: an error of the save is thrown into the try block of the loop,
\* whose catch block takes it for a failure of the list
FetchOkSaveThrows(c, answer, js) ==
    IF writable
    THEN /\ NoneDone
         /\ calls[c].pc = "fetch"
         /\ LET frame   == calls[c].frame
                fetched == FetchFinish(listObj[randomList(frame)], frame.req[1], answer, js)
                m1      == Commit(mem, frame, fetched, now)
                call    == Returned(calls[c], SuccessResult(frame, fetched))
            IN  \E next \in RunQueue(m1, call) :
                   Effect(m1, saveConfig(m1), [calls EXCEPT ![c] = next])
         /\ UNCHANGED <<now, ops>>
    ELSE FetchFail(c, <<"EACCES">>)

\* fetchListItems resolves: header, commit, save, return; then the caller goes on
FetchOk(c, answer, js) ==
    /\ NoneDone
    /\ calls[c].pc = "fetch"
    /\ LET frame   == calls[c].frame
           fetched == FetchFinish(listObj[randomList(frame)], frame.req[1], answer, js)
           m1      == Commit(mem, frame, fetched, now)
           call    == Returned(calls[c], SuccessResult(frame, fetched))
       IN  \E next \in RunQueue(m1, call) :
              Effect(m1, saveConfig(m1), [calls EXCEPT ![c] = next])
    /\ UNCHANGED <<now, ops>>

(***************************************************************************)
(* CatalogService.refreshAllSlots.                                         *)
(***************************************************************************)
\* Array.prototype.sort((a, b) => a.listIds.length - b.listIds.length), stable
RECURSIVE InsertByLength(_, _, _)
InsertByLength(m, sorted, r) ==
    IF sorted = <<>> THEN <<r>>
    ELSE IF Cardinality(m.slotObj[Head(sorted)].listIds) <= Cardinality(m.slotObj[r].listIds)
         THEN <<Head(sorted)>> \o InsertByLength(m, Tail(sorted), r)
         ELSE <<r>> \o sorted

RECURSIVE SortByLength(_, _)
SortByLength(m, s) ==
    IF s = <<>> THEN <<>>
    ELSE InsertByLength(m, SortByLength(m, SubSeq(s, 1, Len(s) - 1)), s[Len(s)])

validSlots(m) ==
    SortByLength(m, FilterSeq(m.slots, {r \in Range(m.slots) : m.slotObj[r].listIds # {}}))

\* validSlots.forEach(s => s.currentSelection = undefined)
\* variant: the batch starts without clearing
ClearNothing(m, refs) == m

ClearSelections(m, refs) ==
    [m EXCEPT !.slotObj = [r \in DOMAIN m.slotObj |->
                              IF r \in refs THEN [m.slotObj[r] EXCEPT !.currentSelection = <<>>]
                              ELSE m.slotObj[r]]]

RefreshAllSlots ==
    /\ CanStart
    /\ LET valid == validSlots(mem)
           m1    == ClearSelections(mem, Range(valid))
           queue == [i \in DOMAIN valid |-> mem.slotObj[valid[i]].id]
       IN  \E call \in RunQueue(m1, NewCall("refreshAllSlots", queue)) :
              Effect(m1, disk, [calls EXCEPT ![FreeCall] = call])
    /\ ops' = ops - 1
    /\ UNCHANGED now

\* the operation's caller takes the result; the caller of a scheduled batch
\* is the job's callback, which then notes the time
Return(c) ==
    /\ calls[c].pc = "done"
    /\ Store(mem, disk, [calls EXCEPT ![c] = IdleCall])
    /\ lastRunTime' = IF calls[c].op = "scheduled" THEN now ELSE lastRunTime
    /\ UNCHANGED <<now, ops, job, jobs, hour>>

\* time passes
Tick ==
    /\ NoneDone
    /\ now < MaxLists + MaxSlots + MaxClock
    /\ now' = now + 1
    /\ UNCHANGED <<listObj, lists, slotObj, slots, disk, calls, ops, served, settings,
                   writable>>
    /\ UNCHANGED schedVars

(***************************************************************************)
(* Slot lifecycle (CatalogService).                                        *)
(***************************************************************************)
FreeSlotRef == CHOOSE r \in SlotRefs : r \notin DOMAIN slotObj
FreeListRef == CHOOSE r \in ListRefs : r \notin DOMAIN listObj

\* variant: the new slot is saved and not refreshed
AddSlotNoRefresh(alias, type) ==
    /\ CanStart
    /\ \E r \in SlotRefs : r \notin DOMAIN slotObj
    /\ LET allListIds == {mem.listObj[l].id :
                             l \in {x \in Range(lists) : OrMovie(listObj[x].contentType) = type}}
           newSlot == CatalogSlot(now, alias, type, allListIds, <<>>)
           m1 == [mem EXCEPT !.slotObj = (FreeSlotRef :> newSlot) @@ @,
                             !.slots = Append(@, FreeSlotRef)]
           call == [NewCall("addSlot", <<>>) EXCEPT !.obj = FreeSlotRef]
       IN  \E next \in RunQueue(m1, call) :
              Effect(m1, saveConfig(m1), [calls EXCEPT ![FreeCall] = next])
    /\ ops' = ops - 1
    /\ UNCHANGED now

AddSlot(alias, type) ==
    /\ CanStart
    /\ \E r \in SlotRefs : r \notin DOMAIN slotObj
    /\ LET allListIds == {mem.listObj[l].id :
                             l \in {x \in Range(lists) : OrMovie(listObj[x].contentType) = type}}
           newSlot == CatalogSlot(now, alias, type, allListIds, <<>>)
           m1 == [mem EXCEPT !.slotObj = (FreeSlotRef :> newSlot) @@ @,
                             !.slots = Append(@, FreeSlotRef)]
           call == [NewCall("addSlot", <<newSlot.id>>) EXCEPT !.obj = FreeSlotRef]
       IN  \E next \in RunQueue(m1, call) :
              Effect(m1, saveConfig(m1), [calls EXCEPT ![FreeCall] = next])
    /\ ops' = ops - 1
    /\ UNCHANGED now

Null == [kind |-> "null"]

\* variant: every change of listIds refreshes a slot that has a selection
shouldRefreshOnListIds(slot, updates) ==
    "listIds" \in DOMAIN updates /\ HasSelection(slot)

\* updateSlot: shouldRefresh, slot having taken the listIds of the update
shouldRefresh(slot, updates) ==
    /\ "listIds" \in DOMAIN updates
    /\ HasSelection(slot)
    /\ SourceIdOf(slot) \notin slot.listIds

\* updates is a record with some of the fields alias, listIds, type
UpdateSlot(id, updates) ==
    /\ CanStart
    /\ LET found == FindSlot(mem, id)
       IN  IF found = <<>>
           THEN Effect(mem, disk,
                       [calls EXCEPT ![FreeCall] =
                           [NewCall("updateSlot", <<>>) EXCEPT !.pc = "done", !.result = Null]])
           ELSE LET r  == found[1]
                    s0 == slotObj[r]
                    s1 == IF "alias" \in DOMAIN updates /\ updates.alias # ""
                          THEN [s0 EXCEPT !.alias = updates.alias] ELSE s0
                    s2 == IF "listIds" \in DOMAIN updates
                          THEN [s1 EXCEPT !.listIds = updates.listIds] ELSE s1
                    s3 == IF "type" \in DOMAIN updates /\ updates.type # ""
                          THEN [s2 EXCEPT !.type = updates.type] ELSE s2
                    m1 == [mem EXCEPT !.slotObj[r] = s3]
                    call == [NewCall("updateSlot", IF shouldRefresh(s2, updates) THEN <<s3.id>> ELSE <<>>)
                                EXCEPT !.last = Null]
                IN  \E next \in RunQueue(m1, call) :
                       Effect(m1, saveConfig(m1), [calls EXCEPT ![FreeCall] = next])
    /\ ops' = ops - 1
    /\ UNCHANGED now

DeleteSlot(id) ==
    /\ NoneDone
    /\ ops > 0
    /\ LET m1 == [mem EXCEPT !.slots = FilterSeq(@, {r \in Range(slots) : slotObj[r].id # id})]
       IN  Effect(m1, saveConfig(m1), calls)
    /\ ops' = ops - 1
    /\ UNCHANGED now

(***************************************************************************)
(* List lifecycle (ListService).  validateList suspends in an adapter      *)
(* call; the operation resumes in Validated or is rejected in Invalid.     *)
(***************************************************************************)
\* lists.find(l => l.id === id), as an optional reference
FindList(m, id) ==
    LET found == FilterSeq(m.lists, {r \in Range(m.lists) : m.listObj[r].id = id})
    IN  IF found = <<>> THEN <<>> ELSE <<Head(found)>>

\* Object.assign(list, updates)
Assign(list, updates) ==
    [f \in DOMAIN list |-> IF f \in DOMAIN updates THEN updates[f] ELSE list[f]]

\* variant: the new list goes to every slot of its type
AddListCommitToAll(m, list, time, ref) ==
    LET newList == [Assign(SourceList(0, "", "", "", <<>>, FALSE, 0, ""), list)
                       EXCEPT !.id = time]
        newType == OrMovie(newList.contentType)
        grown(slot) == IF OrMovie(slot.type) = newType
                       THEN [slot EXCEPT !.listIds = @ \cup {newList.id}]
                       ELSE slot
    IN  [m EXCEPT !.listObj = (ref :> newList) @@ @,
                  !.lists = Append(@, ref),
                  !.slotObj = [r \in DOMAIN m.slotObj |->
                                  IF r \in Range(m.slots) THEN grown(m.slotObj[r])
                                  ELSE m.slotObj[r]]]

\* addList after the validation: the new list, the "select all" slots, the save
AddListCommit(m, list, time, ref) ==
    LET newList == [Assign(SourceList(0, "", "", "", <<>>, FALSE, 0, ""), list)
                       EXCEPT !.id = time]
        newType == OrMovie(newList.contentType)
        existingListIds == {m.listObj[l].id :
                               l \in {x \in Range(m.lists) :
                                         OrMovie(m.listObj[x].contentType) = newType}}
        grown(slot) == IF OrMovie(slot.type) = newType /\ existingListIds \subseteq slot.listIds
                       THEN [slot EXCEPT !.listIds = @ \cup {newList.id}]
                       ELSE slot
    IN  [m EXCEPT !.listObj = (ref :> newList) @@ @,
                  !.lists = Append(@, ref),
                  !.slotObj = [r \in DOMAIN m.slotObj |->
                                  IF r \in Range(m.slots) THEN grown(m.slotObj[r])
                                  ELSE m.slotObj[r]]]

AddList(list) ==
    /\ CanStart
    /\ Effect(mem, disk,
              [calls EXCEPT ![FreeCall] =
                  [NewCall("addList", <<>>) EXCEPT !.pc = "validate", !.updates = <<list>>]])
    /\ ops' = ops - 1
    /\ UNCHANGED now

\* variant: every slot that has a selection is refreshed
UpdateListCommitAllSlots(m, call) ==
    LET m1 == [m EXCEPT !.listObj[call.obj] = Assign(@, call.updates[1].updates)]
        slotsUsingList == FilterSeq(m1.slots,
                              {r \in Range(m1.slots) : m1.slotObj[r].currentSelection # <<>>})
    IN  [m |-> m1,
         call |-> [call EXCEPT !.queue = [i \in DOMAIN slotsUsingList |->
                                             m1.slotObj[slotsUsingList[i]].id]]]

\* updateList after the validation: assign, save, refresh the slots using the list
UpdateListCommit(m, call) ==
    LET id == call.updates[1].id
        m1 == [m EXCEPT !.listObj[call.obj] = Assign(@, call.updates[1].updates)]
        slotsUsingList == FilterSeq(m1.slots,
                              {r \in Range(m1.slots) :
                                  /\ m1.slotObj[r].currentSelection # <<>>
                                  /\ m1.slotObj[r].currentSelection[1].sourceId = id})
    IN  [m |-> m1,
         call |-> [call EXCEPT !.queue = [i \in DOMAIN slotsUsingList |->
                                             m1.slotObj[slotsUsingList[i]].id]]]

\* updates is a record with some of the fields of a SourceList
UpdateList(id, updates) ==
    /\ CanStart
    /\ LET found == FindList(mem, id)
           call  == [NewCall("updateList", <<>>) EXCEPT
                        !.updates = <<[id |-> id, updates |-> updates]>>,
                        !.obj = IF found = <<>> THEN 0 ELSE found[1]]
       IN  IF found = <<>>
           THEN Effect(mem, disk,
                       [calls EXCEPT ![FreeCall] = [call EXCEPT !.pc = "done"]])
           ELSE IF "config" \in DOMAIN updates \/ "type" \in DOMAIN updates
                THEN Effect(mem, disk,
                            [calls EXCEPT ![FreeCall] = [call EXCEPT !.pc = "validate"]])
                ELSE LET c1 == UpdateListCommit(mem, call)
                     IN  \E next \in RunQueue(c1.m, c1.call) :
                            Effect(c1.m, saveConfig(c1.m), [calls EXCEPT ![FreeCall] = next])
    /\ ops' = ops - 1
    /\ UNCHANGED now

\* validateList resolves
Validated(c) ==
    /\ NoneDone
    /\ calls[c].pc = "validate"
    /\ IF calls[c].op = "addList"
       THEN /\ \E r \in ListRefs : r \notin DOMAIN listObj
            /\ LET m1 == AddListCommit(mem, calls[c].updates[1], now, FreeListRef)
               IN  Effect(m1, saveConfig(m1),
                          [calls EXCEPT ![c] =
                              [@ EXCEPT !.pc = "done",
                                        !.result = [kind |-> "list",
                                                    value |-> m1.listObj[FreeListRef]]]])
       ELSE LET c1 == UpdateListCommit(mem, calls[c])
            IN  \E next \in RunQueue(c1.m, c1.call) :
                   Effect(c1.m, saveConfig(c1.m), [calls EXCEPT ![c] = next])
    /\ UNCHANGED <<now, ops>>

\* variant: the update is assigned before the validation has passed
ValidationFailedAssigned(m, call) ==
    IF call.op = "updateList"
    THEN [m EXCEPT !.listObj[call.obj] = Assign(@, call.updates[1].updates)]
    ELSE m

\* the configuration when validateList has thrown: as it was
ValidationFailed(m, call) == m

\* validateList throws "Could not access list: ..."
Invalid(c, message) ==
    /\ NoneDone
    /\ calls[c].pc = "validate"
    /\ Effect(ValidationFailed(mem, calls[c]), disk,
              [calls EXCEPT ![c] =
                  [@ EXCEPT !.pc = "done",
                            !.result = [kind |-> "error",
                                        message |-> <<"Could not access list:">> \o message]]])
    /\ UNCHANGED <<now, ops>>

\* variant: the slots showing the deleted list lose their selection
DeleteListClearing(id) ==
    /\ NoneDone
    /\ ops > 0
    /\ LET m1 == [mem EXCEPT
                     !.lists = FilterSeq(@, {r \in Range(lists) : listObj[r].id # id}),
                     !.slotObj = [r \in DOMAIN slotObj |->
                                     IF r \in Range(slots)
                                     THEN [slotObj[r] EXCEPT
                                              !.listIds = @ \ {id},
                                              !.currentSelection =
                                                  IF HasSelection(slotObj[r])
                                                     /\ SourceIdOf(slotObj[r]) = id
                                                  THEN <<>> ELSE @]
                                     ELSE slotObj[r]]]
       IN  Effect(m1, saveConfig(m1), calls)
    /\ ops' = ops - 1
    /\ UNCHANGED now

DeleteList(id) ==
    /\ NoneDone
    /\ ops > 0
    /\ LET m1 == [mem EXCEPT
                     !.lists = FilterSeq(@, {r \in Range(lists) : listObj[r].id # id}),
                     !.slotObj = [r \in DOMAIN slotObj |->
                                     IF r \in Range(slots)
                                     THEN [slotObj[r] EXCEPT !.listIds = @ \ {id}]
                                     ELSE slotObj[r]]]
       IN  Effect(m1, saveConfig(m1), calls)
    /\ ops' = ops - 1
    /\ UNCHANGED now

(***************************************************************************)
(* SchedulerService and the jobs of node-schedule.  A job made from the    *)
(* expression "0 0 */N * * *" is invoked at the start of every hour of the *)
(* day that is a multiple of N, from the hour after its creation on, until *)
(* it is cancelled.  s is the scheduler: its handle and the scheduled      *)
(* jobs.                                                                   *)
(***************************************************************************)
HoursOfDay == 0..23

\* the hour of the day the process starts in
StartHour == 22

\* the hours the field "*/N" names
CronHours(intervalHours) == {h \in HoursOfDay : h % intervalHours = 0}

Job(intervalHours, time) == [interval |-> intervalHours, since |-> time, last |-> <<>>]

NoJobs == [j \in {} |-> Job(0, 0)]

Scheduler(j, J) == [job |-> j, jobs |-> J]

FreeJob(J) == CHOOSE j \in 1..(Cardinality(DOMAIN J) + 1) : j \notin DOMAIN J

\* this.job = schedule.scheduleJob(cronExpression, ...)
startSchedule(s, intervalHours, time) ==
    LET j == FreeJob(s.jobs)
    IN  Scheduler(<<j>>, (j :> Job(intervalHours, time)) @@ s.jobs)

\* variant: the new job is made without the old one being cancelled
updateScheduleNoCancel(s, intervalHours, time) ==
    IF intervalHours > 0 THEN startSchedule(s, intervalHours, time)
    ELSE Scheduler(<<>>, s.jobs)

updateSchedule(s, intervalHours, time) ==
    LET s1 == IF s.job # <<>>
              THEN Scheduler(<<>>, Restrict(s.jobs, DOMAIN s.jobs \ {s.job[1]}))
              ELSE s
    IN  IF intervalHours > 0 THEN startSchedule(s1, intervalHours, time) ELSE s1

\* SchedulerService.init on the settings loaded
init(st, time) ==
    IF st.refreshIntervalHours > 0
    THEN startSchedule(Scheduler(<<>>, NoJobs), st.refreshIntervalHours, time)
    ELSE Scheduler(<<>>, NoJobs)

\* the job is due: its hour has come and it has not been invoked in it
Due(J, j, time) ==
    /\ time > J[j].since
    /\ (time % 24) \in CronHours(J[j].interval)
    /\ J[j].last # <<time>>

\* job.nextInvocation(): the first hour after this one that the job names
nextInvocation(J, j, time) ==
    CHOOSE h \in (time + 1)..(time + 24) :
        /\ (h % 24) \in CronHours(J[j].interval)
        /\ \A g \in (time + 1)..(h - 1) : (g % 24) \notin CronHours(J[j].interval)

\* SchedulerService.getNextInvocation, null being the empty sequence
getNextInvocation(s, time) ==
    IF s.job = <<>> THEN <<>> ELSE <<nextInvocation(s.jobs, s.job[1], time)>>

\* the callback of job j: CatalogService.refreshAllSlots()
JobFires(j) ==
    /\ NoneDone
    /\ \E c \in CallIds : calls[c].pc = "idle"
    /\ j \in DOMAIN jobs
    /\ Due(jobs, j, hour)
    /\ LET valid == validSlots(mem)
           m1    == ClearSelections(mem, Range(valid))
           queue == [i \in DOMAIN valid |-> mem.slotObj[valid[i]].id]
           call  == [NewCall("scheduled", queue) EXCEPT !.obj = j]
       IN  \E next \in RunQueue(m1, call) :
              Store(m1, disk, [calls EXCEPT ![FreeCall] = next])
    /\ jobs' = [jobs EXCEPT ![j].last = <<hour>>]
    /\ UNCHANGED <<now, ops, job, lastRunTime, hour>>

\* an hour passes, every job that was due having been invoked
HourTick ==
    /\ NoneDone
    /\ hour < StartHour + MaxHours
    /\ \A j \in DOMAIN jobs : ~ Due(jobs, j, hour)
    /\ hour' = hour + 1
    /\ UNCHANGED <<now, listObj, lists, slotObj, slots, disk, calls, ops, served,
                   settings, job, jobs, lastRunTime, writable>>

(***************************************************************************)
(* POST /settings.  A value of the body is a text: a sign, its leading     *)
(* digits, and whether other characters follow them.                       *)
(***************************************************************************)
Text(neg, digits, rest) == [neg |-> neg, digits |-> digits, rest |-> rest]

RECURSIVE Decimal(_)
Decimal(digits) ==
    IF digits = <<>> THEN 0
    ELSE 10 * Decimal(SubSeq(digits, 1, Len(digits) - 1)) + digits[Len(digits)]

\* parseInt(text, 10), NaN being the empty sequence
parseInt(text) ==
    IF text.digits = <<>> THEN <<>>
    ELSE <<(IF text.neg THEN -1 ELSE 1) * Decimal(text.digits)>>

\* body is a record with some of the fields refreshIntervalHours, defaultItemLimit
UpdateSettings(body) ==
    /\ NoneDone
    /\ ops > 0
    /\ LET hasHours == "refreshIntervalHours" \in DOMAIN body
           hours    == IF hasHours THEN parseInt(body.refreshIntervalHours) ELSE <<>>
           badHours == hasHours /\ (hours = <<>> \/ hours[1] < 0)
           hasLimit == "defaultItemLimit" \in DOMAIN body
           limit    == IF hasLimit THEN parseInt(body.defaultItemLimit) ELSE <<>>
           badLimit == hasLimit /\ (limit = <<>> \/ limit[1] < 1 \/ limit[1] > 1000)
           s0 == Scheduler(job, jobs)
           s1 == IF hasHours /\ ~ badHours THEN updateSchedule(s0, hours[1], hour) ELSE s0
           st1 == IF hasHours /\ ~ badHours
                  THEN [settings EXCEPT !.refreshIntervalHours = hours[1]] ELSE settings
           st2 == IF hasLimit /\ ~ badLimit
                  THEN [st1 EXCEPT !.defaultItemLimit = limit[1]] ELSE st1
           m1 == [mem EXCEPT !.settings = st2]
       IN  IF badHours
           THEN Store(mem, disk, calls) /\ UNCHANGED <<job, jobs>>
           ELSE /\ job' = s1.job
                /\ jobs' = s1.jobs
                /\ IF badLimit THEN Store(mem, disk, calls)
                   ELSE Store(m1, saveConfig(m1), calls)
    /\ ops' = ops - 1
    /\ UNCHANGED <<now, lastRunTime, hour>>

(***************************************************************************)
(* Start-up: the configuration loadConfig has read from config/data.json:  *)
(* n movie lists of three providers, the first two in one group or in      *)
(* none, and two movie slots created earlier, each slot created with all   *)
(* the lists of its type and holding no selection; the file holds the      *)
(* same.  k operations may run at once and b operations may start.         *)
(***************************************************************************)
InitTime == MaxLists + MaxSlots

NoConfig == [listType |-> "", listTypeLabel |-> ""]
ImdbTop  == [listType |-> "imdb_top", listTypeLabel |-> "IMDB Top 250"]

InitLists(n, g) ==
    [l \in 1..n |->
        CASE l = 1 -> SourceList(1, "A", TRAKT_USER_LIST, MOVIE, NoConfig, FALSE, 0, g)
          [] l = 2 -> SourceList(2, "B", DEFAULT_LIST, MOVIE, ImdbTop, TRUE, 0, g)
          [] OTHER -> SourceList(l, "C", MDBLIST_LIST, MOVIE, NoConfig, FALSE, 0, "")]

InitSlots(LO) ==
    [r \in 1..2 |-> CatalogSlot(r, "S", MOVIE, {LO[l].id : l \in DOMAIN LO}, <<>>)]

Loaded(n, k, b) ==
    /\ now = InitTime
    /\ \E g \in Groups : listObj = InitLists(n, g)
    /\ lists = [l \in 1..n |-> l]
    /\ slotObj = InitSlots(listObj)
    /\ slots = <<1, 2>>
    /\ settings = DefaultSettings
    /\ writable = TRUE
    /\ disk = saveConfig(mem)
    /\ calls = [c \in 1..k |-> IdleCall]
    /\ ops = b
    /\ served = <<>>
    /\ job = init(settings, StartHour).job
    /\ jobs = init(settings, StartHour).jobs
    /\ lastRunTime = 0
    /\ hour = StartHour

Init == Loaded(MaxLists - 1, MaxCalls, MaxOps)

\* the lists POST /lists is called with
NewLists ==
    {[alias |-> "C", type |-> MDBLIST_LIST, contentType |-> t, config |-> NoConfig,
      shuffle |-> FALSE, limit |-> 0, group |-> g] : t \in ContentType, g \in Groups}

\* the bodies PUT /slots/:id is called with
\* (the client sends ids of lists it has seen, which may be gone meanwhile)
SlotUpdates(m) ==
    {[listIds |-> S] :
        S \in {T \in SUBSET (ListIds(m) \cup ListRefs) : Cardinality(T) <= 1} \cup {ListIds(m)}}
        \cup {[type |-> SERIES]}

\* the bodies PUT /lists/:id is called with
\* (any field of a SourceList may be in the body, its id too)
ForeignId == InitTime + MaxClock + 1

ListUpdates ==
    {[group |-> g] : g \in Groups} \cup {[contentType |-> t] : t \in ContentType}
        \cup {[type |-> PLEX_COLLECTION]} \cup {[id |-> ForeignId]}

Next ==
    \/ \E id \in SlotIds(mem) : RefreshSlot(id)
    \/ \E c \in CallIds, answer \in Answers :
          \E js \in Draws(Len(answer)) : FetchOk(c, answer, js)
    \/ \E c \in CallIds, message \in Messages : FetchFail(c, message)
    \/ RefreshAllSlots
    \/ \E type \in ContentType : AddSlot("S", type)
    \/ \E id \in SlotIds(mem) : \E updates \in SlotUpdates(mem) : UpdateSlot(id, updates)
    \/ \E id \in SlotIds(mem) : DeleteSlot(id)
    \/ \E list \in NewLists : AddList(list)
    \/ \E id \in ListIds(mem) : \E updates \in ListUpdates : UpdateList(id, updates)
    \/ \E c \in CallIds : Validated(c)
    \/ \E c \in CallIds, message \in Messages : Invalid(c, message)
    \/ \E id \in ListIds(mem) : DeleteList(id)
    \/ \E c \in CallIds : Return(c)
    \/ Tick

Spec == Init /\ [][Next]_vars

(***************************************************************************)
(* The engine run by one client at a time: refreshes, slot edits and list  *)
(* deletions in sequence.                                                  *)
(***************************************************************************)
MaxSeqOps == 3     \* top-level operations started in one behaviour of SpecSeq

InitSeq == Loaded(MaxLists, 1, MaxSeqOps)

NextSeq ==
    \/ \E id \in SlotIds(mem) : RefreshSlot(id)
    \/ \E c \in CallIds, answer \in Answers :
          \E js \in Draws(Len(answer)) : FetchOk(c, answer, js)
    \/ \E c \in CallIds, message \in Messages : FetchFail(c, message)
    \/ RefreshAllSlots
    \/ \E id \in SlotIds(mem) : \E updates \in SlotUpdates(mem) : UpdateSlot(id, updates)
    \/ \E id \in ListIds(mem) : DeleteList(id)
    \/ \E c \in CallIds : Return(c)

SpecSeq == InitSeq /\ [][NextSeq]_vars

(***************************************************************************)
(* CatalogService.getItems, called by the catalog handlers of the addon.   *)
(* A catalog id is the string of a prefix followed by the digits of a      *)
(* number, given as the two; the manifest prints "cat_" and the slot id.   *)
(***************************************************************************)
CatPrefix == "cat_"

\* catalogId.replace('cat_', '')
StripCat(catalogId) ==
    IF catalogId.prefix = CatPrefix THEN [catalogId EXCEPT !.prefix = ""] ELSE catalogId

\* CatalogService.getManifest: one catalog per slot of the configuration
getManifest(m) ==
    [catalogs |-> [i \in DOMAIN m.slots |->
                      [id   |-> [prefix |-> CatPrefix, id |-> m.slotObj[m.slots[i]].id],
                       type |-> OrMovie(m.slotObj[m.slots[i]].type),
                       name |-> m.slotObj[m.slots[i]].alias]]]

\* the value getItems returns on the configuration m
getItems(m, catalogId) ==
    LET slotId == StripCat(catalogId)
        found  == FilterSeq(m.slots,
                            {r \in Range(m.slots) :
                                slotId = [prefix |-> "", id |-> m.slotObj[r].id]})
    IN  IF found = <<>> \/ m.slotObj[Head(found)].currentSelection = <<>>
        THEN <<>>
        ELSE m.slotObj[Head(found)].currentSelection[1].items

\* variant: a catalog request for a slot without a selection starts a refresh
GetItemsLazy(catalogId) ==
    LET slotId == StripCat(catalogId)
    IN  IF slotId.prefix = "" /\ FindSlot(mem, slotId.id) # <<>>
           /\ slotObj[FindSlot(mem, slotId.id)[1]].currentSelection = <<>>
        THEN RefreshSlot(slotId.id)
        ELSE /\ NoneDone
             /\ ops > 0
             /\ served' = <<[catalogId |-> catalogId, metas |-> getItems(mem, catalogId)]>>
             /\ ops' = ops - 1
             /\ UNCHANGED <<now, listObj, lists, slotObj, slots, disk, calls, settings,
                            writable>>
    /\ UNCHANGED schedVars

\* GET /catalog/:type/:id.json
GetItems(catalogId) ==
    /\ NoneDone
    /\ ops > 0
    /\ served' = <<[catalogId |-> catalogId, metas |-> getItems(mem, catalogId)]>>
    /\ ops' = ops - 1
    /\ UNCHANGED <<now, listObj, lists, slotObj, slots, disk, calls, settings, writable>>
    /\ UNCHANGED schedVars

\* the catalog ids of the requests: the slots there are or were, with the
\* prefix of the manifest, with none and with another
CatalogIds == {[prefix |-> p, id |-> id] : p \in {CatPrefix, "", "x_"}, id \in 1..MaxSlots}

MaxReadOps == 3    \* operations started in one behaviour of SpecRead

InitRead == Loaded(MaxLists - 1, 1, MaxReadOps)

NextRead ==
    \/ \E catalogId \in CatalogIds : GetItems(catalogId)
    \/ \E id \in SlotIds(mem) : RefreshSlot(id)
    \/ \E c \in CallIds, answer \in Answers :
          \E js \in Draws(Len(answer)) : FetchOk(c, answer, js)
    \/ \E c \in CallIds, message \in Messages : FetchFail(c, message)
    \/ \E id \in SlotIds(mem) : DeleteSlot(id)
    \/ \E c \in CallIds : Return(c)

SpecRead == InitRead /\ [][NextRead]_vars

(***************************************************************************)
(* The configuration edited by one client at a time, started on a file     *)
(* that holds no selection or the selections of an earlier refresh (slot 1 *)
(* showing list 1 and slot 2 showing list 2).                              *)
(***************************************************************************)
MaxEditOps == 2    \* operations started in one behaviour of SpecEdit

\* the slots of the file after refreshSlot has committed list r for slot r
SelectedSlots(LO, time) ==
    LET m0 == Mem([l \in DOMAIN LO |-> l], LO, <<1, 2>>, InitSlots(LO), DefaultSettings)
        frame(r) == [NoFrame EXCEPT !.slot = r, !.pool = <<r>>, !.randomIndex = 1]
        fetched(r) == FetchFinish(LO[r], FetchRequest(LO[r]), <<Item(1)>>, <<>>)
    IN  [r \in 1..2 |-> Commit(m0, frame(r), fetched(r), time).slotObj[r]]

InitEdit ==
    /\ now = InitTime
    /\ \E g \in Groups : listObj = InitLists(MaxLists - 1, g)
    /\ lists = [l \in 1..(MaxLists - 1) |-> l]
    /\ slotObj \in {InitSlots(listObj), SelectedSlots(listObj, InitTime - 1)}
    /\ slots = <<1, 2>>
    /\ settings = DefaultSettings
    /\ writable = TRUE
    /\ disk = saveConfig(mem)
    /\ calls = [c \in 1..1 |-> IdleCall]
    /\ ops = MaxEditOps
    /\ served = <<>>
    /\ job = init(settings, StartHour).job
    /\ jobs = init(settings, StartHour).jobs
    /\ lastRunTime = 0
    /\ hour = StartHour

NextEdit ==
    \/ \E id \in SlotIds(mem) : RefreshSlot(id)
    \/ \E c \in CallIds, answer \in Answers :
          \E js \in Draws(Len(answer)) : FetchOk(c, answer, js)
    \/ \E c \in CallIds, message \in Messages : FetchFail(c, message)
    \/ \E type \in ContentType : AddSlot("S", type)
    \/ \E id \in SlotIds(mem) : \E updates \in SlotUpdates(mem) : UpdateSlot(id, updates)
    \/ \E id \in SlotIds(mem) : DeleteSlot(id)
    \/ \E list \in NewLists : AddList(list)
    \/ \E id \in ListIds(mem) : \E updates \in ListUpdates : UpdateList(id, updates)
    \/ \E c \in CallIds : Validated(c)
    \/ \E c \in CallIds, message \in Messages : Invalid(c, message)
    \/ \E id \in ListIds(mem) : DeleteList(id)
    \/ \E c \in CallIds : Return(c)

SpecEdit == InitEdit /\ [][NextEdit]_vars

(***************************************************************************)
(* Catalog requests served while refreshAllSlots runs, on a file that      *)
(* holds no selection or the selections of an earlier refresh.             *)
(***************************************************************************)
NextServe ==
    \/ \E catalogId \in CatalogIds : GetItems(catalogId)
    \/ RefreshAllSlots
    \/ \E c \in CallIds, answer \in Answers :
          \E js \in Draws(Len(answer)) : FetchOk(c, answer, js)
    \/ \E c \in CallIds, message \in Messages : FetchFail(c, message)
    \/ \E c \in CallIds : Return(c)

SpecServe == InitEdit /\ [][NextServe]_vars

(***************************************************************************)
(* Slots and lists created (and slots deleted) while the clock may or may  *)
(* not advance between two requests, started with a single list.           *)
(***************************************************************************)
MaxCreateOps == 3    \* operations started in one behaviour of SpecCreate

NextCreate ==
    \/ \E type \in ContentType : AddSlot("S", type)
    \/ \E list \in NewLists : AddList(list)
    \/ \E c \in CallIds : Validated(c)
    \/ \E id \in SlotIds(mem) : DeleteSlot(id)
    \/ \E c \in CallIds, answer \in Answers :
          \E js \in Draws(Len(answer)) : FetchOk(c, answer, js)
    \/ \E c \in CallIds, message \in Messages : FetchFail(c, message)
    \/ \E c \in CallIds : Return(c)
    \/ Tick

SpecCreate == Loaded(1, 1, MaxCreateOps) /\ [][NextCreate]_vars

(***************************************************************************)
(* The scheduler and the settings: the process starts at StartHour on a    *)
(* file whose settings disable the schedule or give an interval; settings  *)
(* are posted, hours pass, the job runs its batches.                       *)
(***************************************************************************)
MaxSchedOps == 2   \* operations started in one behaviour of SpecSched

\* the refreshIntervalHours of the file at start-up
InitIntervals == {0, 23, DEFAULT_REFRESH_INTERVAL_HOURS}

InitSched ==
    /\ now = InitTime
    /\ listObj = InitLists(MaxLists - 1, "")
    /\ lists = [l \in 1..(MaxLists - 1) |-> l]
    /\ slotObj = InitSlots(listObj)
    /\ slots = <<1, 2>>
    /\ \E n \in InitIntervals : settings = AppSettings(n, DEFAULT_ITEM_LIMIT)
    /\ writable = TRUE
    /\ disk = saveConfig(mem)
    /\ calls = [c \in 1..1 |-> IdleCall]
    /\ ops = MaxSchedOps
    /\ served = <<>>
    /\ job = init(settings, StartHour).job
    /\ jobs = init(settings, StartHour).jobs
    /\ lastRunTime = 0
    /\ hour = StartHour

\* the texts of the bodies POST /settings is called with:
\* "0", "1", "-1", "1h", "off" for the hours and "20", "0" for the limit
HourTexts ==
    {Text(FALSE, <<0>>, FALSE), Text(FALSE, <<1>>, FALSE), Text(TRUE, <<1>>, FALSE),
     Text(FALSE, <<1>>, TRUE), Text(FALSE, <<>>, TRUE)}

LimitTexts == {Text(FALSE, <<2, 0>>, FALSE), Text(FALSE, <<0>>, FALSE)}

SettingsBodies ==
    {[refreshIntervalHours |-> t] : t \in HourTexts}
        \cup {[defaultItemLimit |-> t] : t \in LimitTexts}
        \cup {[refreshIntervalHours |-> t, defaultItemLimit |-> u] :
                  t \in {Text(FALSE, <<0>>, FALSE), Text(FALSE, <<1>>, FALSE)},
                  u \in LimitTexts}

NextSched ==
    \/ \E body \in SettingsBodies : UpdateSettings(body)
    \/ HourTick
    \/ \E j \in DOMAIN jobs : JobFires(j)
    \/ \E c \in CallIds, answer \in Answers :
          \E js \in Draws(Len(answer)) : FetchOk(c, answer, js)
    \/ \E c \in CallIds, message \in Messages : FetchFail(c, message)
    \/ \E c \in CallIds : Return(c)

SpecSched == InitSched /\ [][NextSched]_vars

(***************************************************************************)
(* The shuffle: refreshes of two slots over a list that keeps the order of *)
(* its provider and a list that is shuffled, the providers answering with  *)
(* up to MaxShuffle items, some of them the same item twice.               *)
(***************************************************************************)
MaxShuffle == 3       \* items an adapter returns in SpecShuffle
MaxShuffleOps == 2    \* operations started in one behaviour of SpecShuffle

\* the answers: k times the first item, then the second item
ShuffleAnswers ==
    {[i \in 1..n |-> Item(IF i <= k THEN 1 ELSE 2)] : n \in 0..MaxShuffle, k \in 0..MaxShuffle}

InitShuffle == Loaded(MaxLists - 1, 1, MaxShuffleOps)

NextShuffle ==
    \/ \E id \in SlotIds(mem) : RefreshSlot(id)
    \/ \E c \in CallIds, answer \in ShuffleAnswers :
          \E js \in Draws(Len(answer)) : FetchOk(c, answer, js)
    \/ \E c \in CallIds, message \in Messages : FetchFail(c, message)
    \/ \E c \in CallIds : Return(c)

SpecShuffle == InitShuffle /\ [][NextShuffle]_vars

(***************************************************************************)
(* Refreshes whose adapter calls all come back: a pending fetchListItems   *)
(* eventually resolves or rejects (the adapters are HTTP requests with a   *)
(* response or an error), one request at a time.                           *)
(***************************************************************************)
NextLive ==
    \/ \E id \in SlotIds(mem) : RefreshSlot(id)
    \/ RefreshAllSlots
    \/ \E c \in CallIds, answer \in Answers :
          \E js \in Draws(Len(answer)) : FetchOk(c, answer, js)
    \/ \E c \in CallIds, message \in Messages : FetchFail(c, message)
    \/ \E c \in CallIds : Return(c)

AdapterAnswers ==
    \/ \E c \in CallIds, answer \in Answers :
          \E js \in Draws(Len(answer)) : FetchOk(c, answer, js)
    \/ \E c \in CallIds, message \in Messages : FetchFail(c, message)

SpecLive == InitShuffle /\ [][NextLive]_vars /\ WF_vars(AdapterAnswers)

(***************************************************************************)
(* The configuration edited while the file may stop and start accepting    *)
(* writes (a read-only or full volume, a directory that cannot be made).   *)
(***************************************************************************)
\* the file system starts or stops accepting the write of the file
WriteAccessChanges ==
    /\ NoneDone
    /\ writable' = ~writable
    /\ UNCHANGED <<now, listObj, lists, slotObj, slots, disk, calls, ops, served, settings>>
    /\ UNCHANGED schedVars

NextSave == NextEdit \/ WriteAccessChanges

SpecSave == InitEdit /\ [][NextSave]_vars

(***************************************************************************)
(* Refreshes whose fetches fail with every message of up to MaxWords words *)
(* among the words formatFailReason looks for and one it does not.         *)
(***************************************************************************)
MaxWords == 2    \* words of an error message

ReasonMessages ==
    LET words == {"404", "401", "403", "empty", "Missing", "timeout"}
    IN  UNION {[1..n -> words] : n \in 0..MaxWords}

NextReason ==
    \/ \E id \in SlotIds(mem) : RefreshSlot(id)
    \/ \E c \in CallIds, answer \in Answers :
          \E js \in Draws(Len(answer)) : FetchOk(c, answer, js)
    \/ \E c \in CallIds, message \in ReasonMessages : FetchFail(c, message)
    \/ \E c \in CallIds : Return(c)

SpecReason == InitShuffle /\ [][NextReason]_vars

(***************************************************************************)
(* Observing a step: a refreshSlot call suspended in a fetch returns in    *)
(* this step when the results of its operation grow; the first new result  *)
(* is the one of the call that was suspended.                              *)
(***************************************************************************)
ReturnsNow(c) ==
    /\ calls[c].pc = "fetch"
    /\ Len(calls'[c].results) > Len(calls[c].results)

ResultNow(c) == calls'[c].results[Len(calls[c].results) + 1].result

CommitsNow(c) == ReturnsNow(c) /\ ResultNow(c).success

\* a finished operation whose latest refreshSlot call went through the loop
LoopResult(c) ==
    /\ calls[c].pc = "done"
    /\ calls[c].last.kind = "refresh"
    /\ calls[c].frame.slot # 0

(***************************************************************************)
(* Properties of refreshSlot.                                              *)
(***************************************************************************)

ListExclusivity ==
    \A r1, r2 \in Range(slots) :
        (/\ slotObj[r1].id # slotObj[r2].id
         /\ HasSelection(slotObj[r1])
         /\ HasSelection(slotObj[r2]))
        => SourceIdOf(slotObj[r1]) # SourceIdOf(slotObj[r2])

\* C2 (amended): with one client at a time, when refreshSlot commits a list
\* and its exclusivity filter had left at least one candidate, the committed
\* list is not the active list of any other slot at the commit.
CommitRespectsLists ==
    [][\A c \in CallIds :
          (CommitsNow(c) /\ calls[c].frame.candidates # <<>>) =>
              LET f      == calls[c].frame
                  chosen == listObj[randomList(f)]
              IN  /\ SourceIdOf(slotObj'[f.slot]) = chosen.id
                  /\ \A r \in OtherActiveSlots(mem', slotObj[f.slot].id) :
                         SourceIdOf(slotObj'[r]) # chosen.id]_vars

\* C2 (case): a refresh has committed a list after the filter had removed a
\* list that is active in another slot.
ListRuleApplied ==
    \E c \in CallIds :
        /\ LoopResult(c)
        /\ calls[c].last.success
        /\ calls[c].frame.candidates # <<>>
        /\ \E l \in Range(calls[c].frame.availableLists) \ Range(calls[c].frame.candidates) :
              listObj[l].id \in activeListIds(mem, slotObj[calls[c].frame.slot].id)

\* C3: when the exclusivity filter removes every candidate, refreshSlot
\* selects from all the slot's lists of its type; a fetch that succeeds then
\* makes the call succeed with the fetched list committed, and the call
\* fails only after every one of these lists has been tried.
FallbackWidens ==
    [][\A c \in CallIds :
          /\ (calls'[c].frame.slot # 0 /\ calls'[c].frame.candidates = <<>>) =>
                 /\ calls'[c].frame.selectionPool = calls'[c].frame.availableLists
                 /\ calls'[c].frame.selectionPool # <<>>
          /\ (calls[c].pc = "fetch" /\ calls[c].frame.candidates = <<>>) =>
                 LET f == calls[c].frame
                 IN  /\ randomList(f) \in Range(f.availableLists)
                     /\ \A answer \in Answers : \A js \in Draws(Len(answer)) :
                            FetchOk(c, answer, js) =>
                                /\ CommitsNow(c)
                                /\ SourceIdOf(slotObj'[f.slot]) = listObj[randomList(f)].id
                     /\ (ReturnsNow(c) /\ ~ ResultNow(c).success) =>
                            Range(f.tried) = Range(f.availableLists)]_vars

\* C3 (case): a refresh whose filter had removed every candidate has
\* committed a list that is also the active list of another slot.
FallbackSucceeded ==
    \E c \in CallIds :
        /\ LoopResult(c)
        /\ calls[c].last.success
        /\ calls[c].frame.candidates = <<>>
        /\ SourceIdOf(slotObj[calls[c].frame.slot])
               \in activeListIds(mem, slotObj[calls[c].frame.slot].id)

\* C4: inside one refreshSlot call a list whose fetch has failed is out of
\* the pool and is never fetched again: the lists the call has tried are all
\* different, and every failure is followed by an attempt on another list.
NoRefetch ==
    \A c \in CallIds :
        calls[c].frame.slot # 0 =>
            LET f == calls[c].frame
            IN  /\ \A i, j \in DOMAIN f.tried : i # j => f.tried[i] # f.tried[j]
                /\ \A i \in DOMAIN f.failures : f.failures[i].list \notin Range(f.pool)
                /\ Range(f.tried) \subseteq Range(f.selectionPool)
                /\ calls[c].pc = "fetch" =>
                       /\ Len(f.tried) = Len(f.failures) + 1
                       /\ randomList(f) \notin {f.failures[i].list : i \in DOMAIN f.failures}

\* C4 (case): a call is fetching another list after a failure.
Retrying ==
    \E c \in CallIds :
        /\ calls[c].pc = "fetch"
        /\ calls[c].frame.failures # <<>>
        /\ Len(calls[c].frame.tried) >= 2

\* C5: a refreshSlot call that succeeds after failures returns retried =
\* true with the alias of the first list that failed and the category of
\* that list's error; one that succeeds at its first attempt returns
\* retried = false and neither of the two fields.
RetryMetadata ==
    [][\A c \in CallIds :
          CommitsNow(c) =>
              LET f == calls[c].frame
                  r == ResultNow(c)
              IN  IF f.failures = <<>>
                  THEN r.retried = FALSE /\ r.failedListName = "" /\ r.failReason = ""
                  ELSE /\ r.retried = TRUE
                       /\ r.failedListName = f.failures[1].alias
                       /\ r.failReason = formatFailReason(f.failures[1].message)]_vars

\* C5 (case): a call has succeeded after two failures of different lists
\* with errors of different categories.
SucceededAfterTwoFailures ==
    \E c \in CallIds :
        /\ LoopResult(c)
        /\ calls[c].last.success
        /\ Len(calls[c].frame.failures) >= 2
        /\ calls[c].frame.failures[1].alias # calls[c].frame.failures[2].alias
        /\ formatFailReason(calls[c].frame.failures[1].message)
               # formatFailReason(calls[c].frame.failures[2].message)

\* C6: when every list of the pool has failed, refreshSlot returns
\* success = false; no failed fetch of the call changes the configuration in
\* memory, the slot's currentSelection or the file.
ExhaustionLeavesConfig ==
    [][\A c \in CallIds, message \in Messages :
          FetchFail(c, message) =>
              LET f == calls[c].frame
              IN  /\ Serialize(mem') = Serialize(mem)
                  /\ disk' = disk
                  /\ f.slot \in DOMAIN slotObj' =>
                         slotObj'[f.slot].currentSelection = slotObj[f.slot].currentSelection
                  /\ IF Len(f.pool) = 1
                     THEN ReturnsNow(c) /\ ResultNow(c).success = FALSE
                     ELSE ~ ReturnsNow(c)]_vars

\* C6 (case): a call has failed on every list of its pool for a slot that
\* holds the selection of an earlier refresh, the file holding the same.
ExhaustedKeepingSelection ==
    \E c \in CallIds :
        /\ LoopResult(c)
        /\ ~ calls[c].last.success
        /\ HasSelection(slotObj[calls[c].frame.slot])
        /\ disk = Serialize(mem)

\* C7: the error of a refreshSlot call that has failed on every list of its
\* pool is the message of the first fetch that failed, not of the last.
FirstErrorReported ==
    [][\A c \in CallIds, message \in Messages :
          (FetchFail(c, message) /\ ReturnsNow(c)) =>
              LET f == calls[c].frame
              IN  /\ ResultNow(c).success = FALSE
                  /\ ResultNow(c).error = IF f.failures = <<>> THEN message
                                          ELSE f.failures[1].message]_vars

\* C7 (case): a call has failed on every list of its pool, the first and
\* the last failure with different messages.
ExhaustedWithDifferentErrors ==
    \E c \in CallIds :
        /\ LoopResult(c)
        /\ ~ calls[c].last.success
        /\ Len(calls[c].frame.failures) >= 2
        /\ calls[c].frame.failures[1].message
               # calls[c].frame.failures[Len(calls[c].frame.failures)].message
        /\ calls[c].last.error = calls[c].frame.failures[1].message

\* C8: a currentSelection has at least one item; its first item is the
\* header refreshSlot made (an id of the header prefix and the slot's id, the
\* name of the selection, which is the resolved list name), and the items
\* after it are items of the adapter.
HeaderFirst ==
    \A r \in DOMAIN slotObj :
        slotObj[r].currentSelection # <<>> =>
            LET sel == slotObj[r].currentSelection[1]
            IN  /\ Len(sel.items) >= 1
                /\ sel.items[1].id[1] = HeaderPrefix
                /\ sel.items[1].id[2] = slotObj[r].id
                /\ sel.items[1].name = sel.name
                /\ \A i \in 2..Len(sel.items) :
                       sel.items[i] \in {Item(k) : k \in 1..MaxItems}

\* C8 (case): a slot holds a selection of a header and a fetched item.
HeaderAndItems ==
    \E r \in Range(slots) :
        /\ slotObj[r].currentSelection # <<>>
        /\ Len(slotObj[r].currentSelection[1].items) >= 2

(***************************************************************************)
(* Properties of refreshAllSlots.                                          *)
(***************************************************************************)
\* the slot ids in the order refreshAllSlots passes them to refreshSlot
BatchOrder(call) == [i \in 1..Len(call.results) |-> call.results[i].slotId] \o call.queue

\* the number of existing lists of the slot's listIds that have its type
PoolSize(m, slotId) == Len(availableLists(m, FindSlot(m, slotId)[1]))

BatchStarts(c) == calls[c].pc = "idle" /\ calls'[c].op = "refreshAllSlots"

\* C9 (as stated): refreshAllSlots processes the slots in ascending order
\* of the size of their candidate pool, the number of existing lists of
\* their listIds that have their content type.
BatchByPoolSize ==
    [][\A c \in CallIds :
          BatchStarts(c) =>
              LET order == BatchOrder(calls'[c])
              IN  \A i, j \in DOMAIN order :
                      i < j => PoolSize(mem, order[i]) <= PoolSize(mem, order[j])]_vars

\* C10 (as stated): when refreshAllSlots starts refreshing its first slot,
\* every slot of the configuration, in the batch or not, has no
\* currentSelection.
BatchClearsAll ==
    [][\A c \in CallIds :
          BatchStarts(c) =>
              \A r \in Range(slots') : slotObj'[r].currentSelection = <<>>]_vars

(***************************************************************************)
(* Properties of getItems.                                                 *)
(***************************************************************************)
\* the slot a catalog id names, as an optional reference
CatalogSlotOf(m, catalogId) ==
    IF catalogId.prefix \in {CatPrefix, ""} THEN FindSlot(m, catalogId.id) ELSE <<>>

\* C11: getItems answers with the items of the slot's currentSelection, or
\* with the empty sequence when the slot does not exist or has no selection;
\* the request starts no adapter call and changes neither the lists, the
\* slots, the operations in flight nor the file.
GetItemsPureRead ==
    [][\A catalogId \in CatalogIds :
          GetItems(catalogId) =>
              LET found == CatalogSlotOf(mem, catalogId)
              IN  /\ UNCHANGED <<lists, listObj, slots, slotObj, disk, calls, now>>
                  /\ served' # <<>>
                  /\ served'[1].metas =
                         IF found = <<>> \/ slotObj[found[1]].currentSelection = <<>>
                         THEN <<>>
                         ELSE slotObj[found[1]].currentSelection[1].items]_vars

\* C11 (case): a catalog request has been answered with the header and the
\* items of a selection while a refresh of the slot is suspended in a fetch.
ServedDuringFetch ==
    /\ served # <<>>
    /\ Len(served[1].metas) >= 2
    /\ served[1].metas[1].id[1] = HeaderPrefix
    /\ \E c \in CallIds :
          /\ calls[c].pc = "fetch"
          /\ CatalogSlotOf(mem, served[1].catalogId) = <<calls[c].frame.slot>>

(***************************************************************************)
(* Properties of the configuration under edits.                            *)
(***************************************************************************)

\* C12 (as stated): in every state, every id in the listIds of every slot
\* of the configuration is the id of a list of the configuration.
NoDanglingListIds ==
    \A r \in Range(slots) : slotObj[r].listIds \subseteq ListIds(mem)

\* C13 (as stated): in every state, the currentSelection.sourceId of a
\* slot, if set, is in the slot's listIds, unless an updateSlot of that slot
\* is waiting for the forced refresh it has started.
SourceInListIds ==
    \A r \in Range(slots) :
        HasSelection(slotObj[r]) =>
            \/ SourceIdOf(slotObj[r]) \in slotObj[r].listIds
            \/ \E c \in CallIds :
                  /\ calls[c].op = "updateSlot"
                  /\ calls[c].pc = "fetch"
                  /\ calls[c].frame.slot = r

\* C13 (amended): with one client at a time, the sourceId refreshSlot
\* commits is in the slot's listIds at the commit, unless the list was
\* deleted while its fetch was under way.
CommitInListIds ==
    [][\A c \in CallIds :
          CommitsNow(c) =>
              LET f == calls[c].frame
              IN  \/ SourceIdOf(slotObj'[f.slot]) \in slotObj'[f.slot].listIds
                  \/ randomList(f) \notin Range(lists')]_vars

\* C13 (case): a refresh has committed a list for a slot whose listIds are
\* a part of the lists of the configuration.
CommittedFromPart ==
    \E c \in CallIds :
        /\ LoopResult(c)
        /\ calls[c].last.success
        /\ slotObj[calls[c].frame.slot].listIds # ListIds(mem)
        /\ SourceIdOf(slotObj[calls[c].frame.slot]) \in slotObj[calls[c].frame.slot].listIds

\* C14 (as stated): no step changes the id of a list object.
ListIdImmutable ==
    [][\A r \in DOMAIN listObj \cap DOMAIN listObj' :
          listObj'[r].id = listObj[r].id]_vars

\* C15: when the validation of a list fails, addList and updateList end
\* with an error; no list is added or changed, no slot changes, no refresh
\* is started and the file is not written.
ValidationFailureAborts ==
    [][\A c \in CallIds, message \in Messages :
          Invalid(c, message) =>
              /\ Serialize(mem') = Serialize(mem)
              /\ \A r \in DOMAIN listObj \cap DOMAIN listObj' : listObj'[r] = listObj[r]
              /\ disk' = disk
              /\ calls'[c].pc = "done"
              /\ calls'[c].result.kind = "error"
              /\ calls'[c].results = <<>>
              /\ calls'[c].queue = <<>>]_vars

\* C15 (case): an updateList of a list that a slot is showing has ended
\* with a validation error.
UpdateRejected ==
    \E c \in CallIds :
        /\ calls[c].pc = "done"
        /\ calls[c].op = "updateList"
        /\ calls[c].result.kind = "error"
        /\ \E r \in Range(slots) :
              /\ HasSelection(slotObj[r])
              /\ SourceIdOf(slotObj[r]) = calls[c].updates[1].id

\* C16: a successful addList appends the new list and adds its id to the
\* listIds of exactly the slots of its content type whose listIds held every
\* list of that type there was before; the listIds of the other slots stay.
AddListSelectAll ==
    [][\A c \in CallIds :
          (Validated(c) /\ calls[c].op = "addList") =>
              LET newType == OrMovie(calls[c].updates[1].contentType)
                  before  == {listObj[l].id :
                                 l \in {x \in Range(lists) :
                                           OrMovie(listObj[x].contentType) = newType}}
                  newId   == calls'[c].result.value.id
              IN  /\ Len(lists') = Len(lists) + 1
                  /\ listObj'[lists'[Len(lists')]] = calls'[c].result.value
                  /\ slots' = slots
                  /\ \A r \in Range(slots) :
                         slotObj'[r].listIds =
                             IF /\ OrMovie(slotObj[r].type) = newType
                                /\ before \subseteq slotObj[r].listIds
                             THEN slotObj[r].listIds \cup {newId}
                             ELSE slotObj[r].listIds]_vars

\* C16 (case): an addList has ended with the new list in the listIds of one
\* slot of its type and not in those of another slot of its type.
AddedToSomeSlots ==
    \E c \in CallIds :
        /\ calls[c].pc = "done"
        /\ calls[c].op = "addList"
        /\ calls[c].result.kind = "list"
        /\ \E r1, r2 \in Range(slots) :
              /\ OrMovie(slotObj[r1].type) = OrMovie(calls[c].result.value.contentType)
              /\ OrMovie(slotObj[r2].type) = OrMovie(calls[c].result.value.contentType)
              /\ calls[c].result.value.id \in slotObj[r1].listIds
              /\ calls[c].result.value.id \notin slotObj[r2].listIds

\* an updateList stores its update in this step
UpdateListStores(c) ==
    /\ calls[c].pc \in {"idle", "validate"}
    /\ calls'[c].op = "updateList"
    /\ calls'[c].pc \in {"fetch", "done"}
    /\ calls'[c].obj # 0
    /\ calls'[c].result.kind # "error"

\* C17: a successful updateList of list L stores the updated fields and
\* then calls refreshSlot for the slots whose currentSelection.sourceId is
\* L's id at that moment, in their order, and for no other slot.
UpdateListRefreshesUsers ==
    [][\A c \in CallIds :
          UpdateListStores(c) =>
              LET id    == calls'[c].updates[1].id
                  obj   == calls'[c].obj
                  users == FilterSeq(slots,
                               {r \in Range(slots) :
                                   /\ slotObj[r].currentSelection # <<>>
                                   /\ slotObj[r].currentSelection[1].sourceId = id})
              IN  /\ listObj'[obj] = Assign(listObj[obj], calls'[c].updates[1].updates)
                  /\ disk' = Serialize(mem')
                  /\ BatchOrder(calls'[c]) = [i \in DOMAIN users |-> slotObj[users[i]].id]
                  /\ calls'[c].pc = "fetch" =>
                         /\ calls'[c].frame.availableLists
                                = availableLists(mem', calls'[c].frame.slot)
                         /\ calls'[c].frame.candidates
                                = candidates(mem', calls'[c].frame.slot)]_vars

\* C17 (case): an updateList is refreshing the slot that shows its list
\* while another slot shows another list and is not refreshed.
UpdateListRefreshing ==
    \E c \in CallIds :
        /\ calls[c].op = "updateList"
        /\ calls[c].pc = "fetch"
        /\ \E r \in Range(slots) :
              /\ r # calls[c].frame.slot
              /\ HasSelection(slotObj[r])
              /\ slotObj[r].id \notin Range(BatchOrder(calls[c]))

\* C18: deleteList removes the list from the configuration and its id from
\* the listIds of every slot, writes the file, starts no refresh and leaves
\* every slot's currentSelection as it is, also when it shows the deleted
\* list.
DeleteListPrunesOnly ==
    [][\A id \in ListIds(mem) :
          DeleteList(id) =>
              /\ id \notin ListIds(mem')
              /\ lists' = FilterSeq(lists, {r \in Range(lists) : listObj[r].id # id})
              /\ slots' = slots
              /\ \A r \in Range(slots) :
                     slotObj'[r] = [slotObj[r] EXCEPT !.listIds = @ \ {id}]
              /\ calls' = calls
              /\ disk' = Serialize(mem')]_vars

\* C18 (case): after one deleteList a slot shows the deleted list, which is
\* in its listIds no more.
ShowingDeletedList ==
    /\ ops = MaxEditOps - 1
    /\ Len(lists) = MaxLists - 2
    /\ \E r \in Range(slots) :
          /\ HasSelection(slotObj[r])
          /\ SourceIdOf(slotObj[r]) \notin ListIds(mem)
          /\ SourceIdOf(slotObj[r]) \notin slotObj[r].listIds

\* C19 (as stated): when addSlot has returned, the new slot has a
\* currentSelection.
AddSlotLeavesSelection ==
    \A c \in CallIds :
        (calls[c].pc = "done" /\ calls[c].op = "addSlot") =>
            HasSelection(slotObj[calls[c].obj])

\* C19 (amended): addSlot appends a slot whose listIds are the ids of all
\* the lists of its content type and at once calls refreshSlot with the new
\* slot's id; when addSlot returns, the new slot has a currentSelection
\* exactly when that refresh went through the loop for the new slot and
\* succeeded.
AddSlotRefreshes ==
    [][\A c \in CallIds :
          /\ (calls[c].pc = "idle" /\ calls'[c].op = "addSlot") =>
                 LET ref  == calls'[c].obj
                     slot == slotObj'[ref]
                 IN  /\ slots' = Append(slots, ref)
                     /\ slot.id = now
                     /\ slot.listIds =
                            {listObj[l].id :
                                l \in {x \in Range(lists) :
                                          OrMovie(listObj[x].contentType) = slot.type}}
                     /\ slot.currentSelection = <<>>
                     /\ BatchOrder(calls'[c]) = <<slot.id>>
          /\ (calls'[c].pc = "done" /\ calls'[c].op = "addSlot") =>
                 /\ calls'[c].result = [kind |-> "slot", value |-> slotObj'[calls'[c].obj]]
                 /\ HasSelection(slotObj'[calls'[c].obj])
                        <=> /\ calls'[c].last.kind = "refresh"
                            /\ calls'[c].last.success
                            /\ calls'[c].frame.slot = calls'[c].obj]_vars

\* C19 (case): addSlot has returned a slot that has a selection of one of
\* the lists of its type.
AddSlotSelected ==
    \E c \in CallIds :
        /\ calls[c].pc = "done"
        /\ calls[c].op = "addSlot"
        /\ HasSelection(slotObj[calls[c].obj])
        /\ SourceIdOf(slotObj[calls[c].obj]) \in slotObj[calls[c].obj].listIds

\* C20: updateSlot calls refreshSlot for the slot when the update gives
\* listIds and the source of the slot's selection is not in them; otherwise
\* (the source still in them, no selection, or no listIds given) it starts
\* no refresh and returns null; the update itself leaves currentSelection
\* as it is.
UpdateSlotRefreshRule ==
    [][\A id \in SlotIds(mem) : \A updates \in SlotUpdates(mem) :
          UpdateSlot(id, updates) =>
              LET r      == FindSlot(mem, id)[1]
                  old    == slotObj[r]
                  forced == /\ "listIds" \in DOMAIN updates
                            /\ HasSelection(old)
                            /\ SourceIdOf(old) \notin updates.listIds
              IN  /\ BatchOrder(calls'[FreeCall]) = IF forced THEN <<id>> ELSE <<>>
                  /\ slotObj'[r].currentSelection = old.currentSelection
                  /\ "listIds" \in DOMAIN updates => slotObj'[r].listIds = updates.listIds
                  /\ ~ forced => /\ calls'[FreeCall].pc = "done"
                                 /\ calls'[FreeCall].result = Null]_vars

\* C20 (case): an updateSlot is waiting for the refresh it has forced, the
\* slot still showing a list that is no longer in its listIds.
ForcedRefreshUnderWay ==
    \E c \in CallIds :
        /\ calls[c].op = "updateSlot"
        /\ calls[c].pc = "fetch"
        /\ HasSelection(slotObj[calls[c].frame.slot])
        /\ SourceIdOf(slotObj[calls[c].frame.slot]) \notin slotObj[calls[c].frame.slot].listIds

(***************************************************************************)
(* Properties of updateSlot and of the item limit.                         *)
(***************************************************************************)

\* C21 (as stated): an updateSlot that changes the content type of a slot
\* holding a selection calls refreshSlot for that slot.
TypeChangeForcesRefresh ==
    [][\A id \in SlotIds(mem) : \A updates \in SlotUpdates(mem) :
          (/\ UpdateSlot(id, updates)
           /\ "type" \in DOMAIN updates
           /\ updates.type # OrMovie(slotObj[FindSlot(mem, id)[1]].type)
           /\ HasSelection(slotObj[FindSlot(mem, id)[1]]))
          => id \in Range(BatchOrder(calls'[FreeCall]))]_vars

\* C22 (as stated): whenever refreshSlot calls the adapter for a list that
\* has no limit of its own, the limit of the call is the defaultItemLimit of
\* the settings at that moment.
LimitFromSettings ==
    [][\A c \in CallIds :
          (calls'[c].pc = "fetch" /\ calls'[c].frame.tried # calls[c].frame.tried) =>
              LET list == listObj'[randomList(calls'[c].frame)]
              IN  list.limit = 0 =>
                      calls'[c].frame.req[1].limit = settings'.defaultItemLimit]_vars

(***************************************************************************)
(* Properties of persistence.                                              *)
(***************************************************************************)
\* a top-level operation completes in this step: a call ends, or an
\* operation that never suspends has run
Completes ==
    \/ \E c \in CallIds : calls[c].pc \in {"idle", "fetch", "validate"} /\ calls'[c].pc = "done"
    \/ ops' # ops /\ calls' = calls /\ served' = served

\* C23 (as stated): with one client at a time, whenever a top-level
\* operation completes the file holds the configuration in memory.
PersistedEqualsMemory ==
    [][Completes => disk' = Serialize(mem')]_vars

(***************************************************************************)
(* Properties of the batch and of its results.                             *)
(***************************************************************************)

\* C24 (as stated): every entry of the results of refreshAllSlots carries
\* an outcome, success or failure; the entry of a slot that has no eligible
\* list carries a failure.
BatchEntriesCarryOutcome ==
    \A c \in CallIds :
        calls[c].op = "refreshAllSlots" =>
            \A i \in DOMAIN calls[c].results :
                "success" \in DOMAIN calls[c].results[i].result

(***************************************************************************)
(* Properties of the scheduler.                                            *)
(***************************************************************************)
\* POST /settings with this body passes an interval to updateSchedule
AppliesInterval(body) ==
    /\ "refreshIntervalHours" \in DOMAIN body
    /\ parseInt(body.refreshIntervalHours) # <<>>
    /\ parseInt(body.refreshIntervalHours)[1] >= 0

\* C25: the scheduler holds at most one scheduled job, the one of its
\* handle.  After start-up a job is scheduled exactly when the interval of
\* the settings loaded is above 0; an updateSchedule(N) cancels the job there
\* was and leaves a job, a new one of interval N, exactly when N > 0; no
\* other step changes the schedule.  The next run is reported as null exactly
\* when no job is scheduled, and a batch is started only by the job of
\* the handle, never by a cancelled one.
SchedulerHandle ==
    /\ (jobs # NoJobs) <=> (settings.refreshIntervalHours > 0)
    /\ [][/\ Cardinality(DOMAIN jobs') <= 1
          /\ DOMAIN jobs = Range(job)
          /\ DOMAIN jobs' = Range(job')
          /\ (getNextInvocation(Scheduler(job', jobs'), hour') = <<>>) <=> (jobs' = NoJobs)
          /\ \A body \in SettingsBodies :
                (UpdateSettings(body) /\ AppliesInterval(body)) =>
                    LET n == parseInt(body.refreshIntervalHours)[1]
                    IN  /\ (jobs' # NoJobs) <=> (n > 0)
                        /\ n > 0 => jobs'[job'[1]] = Job(n, hour)
          /\ (\A body \in SettingsBodies : ~ (UpdateSettings(body) /\ AppliesInterval(body)))
                => /\ job' = job
                   /\ DOMAIN jobs' = DOMAIN jobs
                   /\ \A j \in DOMAIN jobs : jobs'[j].interval = jobs[j].interval
          /\ \A c \in CallIds :
                (calls[c].pc = "idle" /\ calls'[c].op = "scheduled") =>
                    /\ job = <<calls'[c].obj>>
                    /\ calls'[c].obj \in DOMAIN jobs
                    /\ Due(jobs, calls'[c].obj, hour)]_vars

\* C25 (case): the job of a reschedule, made after start-up in place of the
\* one of start-up, has run a batch.
RescheduledJobRan ==
    \E j \in DOMAIN jobs :
        /\ job = <<j>>
        /\ jobs[j].since > StartHour
        /\ jobs[j].last # <<>>
        /\ settings.refreshIntervalHours = jobs[j].interval

\* a refreshSlot call of operation c enters its loop in this step
EntersLoop(c) ==
    /\ calls'[c].pc = "fetch"
    /\ calls[c].pc = "idle" \/ Len(calls'[c].results) > Len(calls[c].results)

\* C26: inside one refreshAllSlots the slots are refreshed one after the
\* other in the order fixed at its start: the refresh under way is the one of
\* the first slot not yet answered; when it enters its loop it reads the
\* configuration that holds every selection committed earlier in the batch,
\* so the lists these show are active for its filter; and once the batch
\* has cleared the selections, a slot's currentSelection is written only by
\* the commit of the refresh under way for that slot, which then returns.
BatchSequential ==
    [][\A c \in CallIds :
          calls'[c].op = "refreshAllSlots" =>
              LET f == calls'[c].frame
              IN  /\ calls[c].op = "refreshAllSlots" =>
                        /\ BatchOrder(calls'[c]) = BatchOrder(calls[c])
                        /\ Len(calls'[c].results) >= Len(calls[c].results)
                        /\ \A r \in DOMAIN slotObj \cap DOMAIN slotObj' :
                               slotObj'[r].currentSelection # slotObj[r].currentSelection =>
                                   /\ CommitsNow(c)
                                   /\ r = calls[c].frame.slot
                                   /\ calls'[c].results[Len(calls[c].results) + 1].slotId
                                          = slotObj[r].id
                  /\ calls'[c].pc = "fetch" =>
                        slotObj'[f.slot].id = Head(calls'[c].queue)
                  /\ EntersLoop(c) =>
                        /\ f.availableLists = availableLists(mem', f.slot)
                        /\ f.candidates = candidates(mem', f.slot)
                        /\ \A i \in DOMAIN calls'[c].results :
                               LET e == calls'[c].results[i]
                               IN  ("success" \in DOMAIN e.result /\ e.result.success
                                    /\ e.slotId # slotObj'[f.slot].id) =>
                                       LET s == slotObj'[FindSlot(mem', e.slotId)[1]]
                                       IN  /\ HasSelection(s)
                                           /\ SourceIdOf(s) \in activeListIds(mem', slotObj'[f.slot].id)
                                           /\ f.candidates # <<>> =>
                                                  \A l \in Range(f.pool) :
                                                      listObj'[l].id # SourceIdOf(s)]_vars

\* C26 (case): the second refresh of a batch is under way, its filter having
\* removed the list the first refresh of the batch has committed.
SecondSlotSeesFirst ==
    \E c \in CallIds :
        /\ calls[c].op = "refreshAllSlots"
        /\ calls[c].pc = "fetch"
        /\ Len(calls[c].results) = 1
        /\ calls[c].results[1].result.kind = "refresh"
        /\ calls[c].results[1].result.success
        /\ calls[c].frame.candidates # <<>>
        /\ \E l \in Range(calls[c].frame.availableLists) \ Range(calls[c].frame.candidates) :
              listObj[l].id = SourceIdOf(slotObj[FindSlot(mem, calls[c].results[1].slotId)[1]])

(***************************************************************************)
(* Properties of the shuffle.                                              *)
(***************************************************************************)
\* the number of times x occurs in the sequence s
Count(s, x) == Cardinality({i \in DOMAIN s : s[i] = x})

\* C27: the items refreshSlot stores after the header are, for a list with
\* the shuffle flag, a permutation of the items fetched (the same length, each
\* item as many times), whatever the random draws; for a list without the
\* flag they are the items fetched, in their order.
ShuffleIsPermutation ==
    [][\A c \in CallIds, answer \in ShuffleAnswers :
          \A js \in Draws(Len(answer)) :
              FetchOk(c, answer, js) =>
                  LET f       == calls[c].frame
                      list    == listObj[randomList(f)]
                      fetched == FetchFinish([list EXCEPT !.shuffle = FALSE],
                                             f.req[1], answer, js).items
                      stored  == Tail(slotObj'[f.slot].currentSelection[1].items)
                  IN  /\ Len(stored) = Len(fetched)
                      /\ \A x \in Range(fetched) \cup Range(stored) :
                             Count(stored, x) = Count(fetched, x)
                      /\ ~ list.shuffle => stored = fetched]_vars

\* C27 (case): a slot shows the shuffled list with MaxShuffle items in
\* another order than the provider's, which has the first item first.
ShuffledOrder ==
    \E r \in Range(slots) :
        /\ HasSelection(slotObj[r])
        /\ listObj[FindList(mem, SourceIdOf(slotObj[r]))[1]].shuffle
        /\ LET items == Tail(slotObj[r].currentSelection[1].items)
           IN  /\ Len(items) = MaxShuffle
               /\ \E i, j \in DOMAIN items : i < j /\ items[i] = Item(2) /\ items[j] = Item(1)

\* C28 (as stated): with the interval unchanged, a scheduled run comes
\* exactly refreshIntervalHours hours after the scheduled run before it.
RunsEveryInterval ==
    [][\A j \in DOMAIN jobs :
          (JobFires(j) /\ jobs[j].last # <<>>) =>
              hour - jobs[j].last[1] = jobs[j].interval]_vars

(***************************************************************************)
(* Properties of the exclusivity filter across retries.                    *)
(***************************************************************************)

\* C29: when the filter of a refreshSlot call has left candidates, they are
\* the pool of the call: none of them is active in another slot or in a group
\* active in another slot when the call reads the configuration; every list
\* the call fetches, and so the list it commits, is one of them; and when the
\* fetch of the last of them fails the call fails, whatever lists the filter
\* had removed.
RetriesStayInPool ==
    [][\A c \in CallIds :
          LET f  == calls[c].frame
              f1 == calls'[c].frame
          IN  /\ (EntersLoop(c) /\ f1.candidates # <<>>) =>
                    /\ f1.pool = f1.candidates
                    /\ \A l \in Range(f1.candidates) :
                           /\ listObj'[l].id \notin activeListIds(mem', slotObj'[f1.slot].id)
                           /\ listObj'[l].group = ""
                                  \/ listObj'[l].group \notin activeGroups(mem', slotObj'[f1.slot].id)
              /\ (calls'[c].pc = "fetch" /\ f1.candidates # <<>>) =>
                    /\ randomList(f1) \in Range(f1.candidates)
                    /\ Range(f1.tried) \subseteq Range(f1.candidates)
              /\ (CommitsNow(c) /\ f.candidates # <<>>) =>
                    /\ randomList(f) \in Range(f.candidates)
                    /\ SourceIdOf(slotObj'[f.slot]) = listObj[randomList(f)].id
              /\ \A message \in Messages :
                    (/\ FetchFail(c, message)
                     /\ f.candidates # <<>>
                     /\ Range(f.tried) = Range(f.candidates)) =>
                        /\ ReturnsNow(c)
                        /\ ~ ResultNow(c).success]_vars

\* C29 (case): a refresh has failed after trying each of its candidates and
\* none of the lists its filter had removed.
FailedDespiteExcluded ==
    \E c \in CallIds :
        /\ LoopResult(c)
        /\ ~ calls[c].last.success
        /\ calls[c].frame.candidates # <<>>
        /\ Range(calls[c].frame.tried) = Range(calls[c].frame.candidates)
        /\ Range(calls[c].frame.availableLists) \ Range(calls[c].frame.candidates) # {}

\* the configuration without the selection of slot r
WithoutOwn(r) == ClearSelections(mem, {r})

\* C30: the selection of the slot being refreshed removes no candidate: the
\* filter and the pool of a refresh of any slot are those of the same
\* configuration with that slot's selection taken away, and they are what
\* a refresh under way has read; a slot with one eligible list has that list
\* as its pool, as a filtered candidate when no other slot shows it or a
\* list of its group.
OwnSelectionNoConstraint ==
    /\ \A r \in Range(slots) :
          /\ candidates(mem, r) = candidates(WithoutOwn(r), r)
          /\ selectionPool(mem, r) = selectionPool(WithoutOwn(r), r)
          /\ Len(availableLists(mem, r)) = 1 =>
                /\ selectionPool(mem, r) = availableLists(mem, r)
                /\ (/\ listObj[availableLists(mem, r)[1]].id
                           \notin activeListIds(mem, slotObj[r].id)
                    /\ listObj[availableLists(mem, r)[1]].group
                           \notin activeGroups(mem, slotObj[r].id))
                       => candidates(mem, r) = availableLists(mem, r)
    /\ \A c \in CallIds :
          (calls[c].pc = "fetch" /\ Len(calls[c].frame.tried) = 1
           /\ calls[c].frame.slot \in Range(slots)
           /\ calls[c].frame.availableLists = availableLists(mem, calls[c].frame.slot)
           /\ calls[c].frame.candidates = candidates(mem, calls[c].frame.slot)) =>
              calls[c].frame.pool = selectionPool(WithoutOwn(calls[c].frame.slot),
                                                  calls[c].frame.slot)

\* C30 (case): a refresh of a slot is fetching, as a filtered candidate, the
\* list the slot is showing, while another slot shows another list.
RefetchingOwnList ==
    \E c \in CallIds :
        /\ calls[c].op = "refreshSlot"
        /\ calls[c].pc = "fetch"
        /\ HasSelection(slotObj[calls[c].frame.slot])
        /\ SourceIdOf(slotObj[calls[c].frame.slot]) = listObj[randomList(calls[c].frame)].id
        /\ randomList(calls[c].frame) \in Range(calls[c].frame.candidates)
        /\ OtherActiveSlots(mem, slotObj[calls[c].frame.slot].id) # {}

(***************************************************************************)
(* Properties of the commit.                                               *)
(***************************************************************************)

\* C31: every list a refreshSlot call takes into its pool has, when the
\* call reads the configuration, its id in the slot's listIds and the slot's
\* content type; the list a call commits is one of these, and the sourceId
\* and sourceType it stores in the slot object (where that object is still
\* referenced) are the id and the type that list has at the commit.
CommitValidity ==
    [][\A c \in CallIds :
          LET f  == calls[c].frame
              f1 == calls'[c].frame
          IN  /\ EntersLoop(c) =>
                    /\ Range(f1.pool) \subseteq Range(f1.availableLists)
                    /\ \A l \in Range(f1.availableLists) :
                           /\ listObj'[l].id \in slotObj'[f1.slot].listIds
                           /\ OrMovie(listObj'[l].contentType) = OrMovie(slotObj'[f1.slot].type)
              /\ (calls'[c].pc = "fetch" /\ calls[c].pc = "fetch"
                     /\ calls'[c].results = calls[c].results) =>
                    /\ f1.availableLists = f.availableLists
                    /\ randomList(f1) \in Range(f1.availableLists)
              /\ CommitsNow(c) =>
                    /\ randomList(f) \in Range(f.availableLists)
                    /\ f.slot \in DOMAIN slotObj' =>
                           /\ slotObj'[f.slot].currentSelection[1].sourceId
                                  = listObj[randomList(f)].id
                           /\ slotObj'[f.slot].currentSelection[1].sourceType
                                  = listObj[randomList(f)].type]_vars

\* C31 (case): a refresh has committed a list whose content type was changed,
\* while its fetch was under way, to another type than the slot's.
CommittedAfterTypeChange ==
    \E c \in CallIds :
        /\ LoopResult(c)
        /\ calls[c].last.success
        /\ LET f == calls[c].frame
           IN  /\ SourceIdOf(slotObj[f.slot]) = listObj[randomList(f)].id
               /\ OrMovie(listObj[randomList(f)].contentType) # OrMovie(slotObj[f.slot].type)

\* C32: a fetch that resolves is a success whatever the number of items:
\* refreshSlot stores the header item followed by the fetched items (the
\* header alone when there are none), returns success = true without another
\* attempt, and its isEmpty is true exactly when fetchListItems returned no
\* item.
EmptyFetchIsSuccess ==
    [][\A c \in CallIds, answer \in Answers :
          \A js \in Draws(Len(answer)) :
              FetchOk(c, answer, js) =>
                  LET f       == calls[c].frame
                      fetched == FetchFinish(listObj[randomList(f)], f.req[1], answer, js)
                      header  == createHeaderItem(slotObj[f.slot], fetched.listName, now)
                  IN  /\ CommitsNow(c)
                      /\ ResultNow(c).isEmpty = (fetched.items = <<>>)
                      /\ (answer = <<>>) => ResultNow(c).isEmpty
                      /\ ResultNow(c).retried = (f.attempts > 0)
                      /\ Len(f.tried) = f.attempts + 1
                      /\ slotObj'[f.slot].currentSelection[1].items
                             = <<header>> \o fetched.items
                      /\ ResultNow(c).isEmpty
                            = (slotObj'[f.slot].currentSelection[1].items = <<header>>)]_vars

\* C32 (case): a refresh has succeeded at its first attempt with no item, its
\* slot holds the header item alone, and another list of the pool was left
\* untried.
EmptySelectionCommitted ==
    \E c \in CallIds :
        /\ LoopResult(c)
        /\ calls[c].last.success
        /\ calls[c].last.isEmpty
        /\ LET f == calls[c].frame
           IN  /\ f.attempts = 0
               /\ Len(f.pool) > 1
               /\ HasSelection(slotObj[f.slot])
               /\ Len(slotObj[f.slot].currentSelection[1].items) = 1

(***************************************************************************)
(* Properties of refreshAllSlots, run alone.                               *)
(***************************************************************************)
BatchCompletes(c) ==
    /\ calls[c].pc # "done"
    /\ calls'[c].pc = "done"
    /\ calls'[c].op = "refreshAllSlots"

\* C33: when a refreshAllSlots that ran alone completes, every slot with a
\* non-empty listIds has an entry in the results, and it holds a selection
\* only if that entry is a success of this batch, whose list name the
\* selection carries; a slot whose entry is a failure or has no outcome holds
\* no selection.
NoPreBatchSelectionSurvives ==
    [][\A c \in CallIds :
          BatchCompletes(c) =>
              \A r \in Range(slots') :
                  slotObj'[r].listIds # {} =>
                      LET res    == calls'[c].results
                          mine   == {i \in DOMAIN res : res[i].slotId = slotObj'[r].id}
                          chosen == {i \in mine : res[i].result.kind = "refresh"
                                                  /\ res[i].result.success}
                      IN  /\ mine # {}
                          /\ HasSelection(slotObj'[r]) = (chosen # {})
                          /\ \A i \in chosen :
                                 slotObj'[r].currentSelection[1].name
                                     = res[i].result.listName]_vars

\* C33 (case): a batch is over in which every list of a slot failed; the slot
\* has no selection, while the stored configuration still shows the one it
\* had before the batch.
BatchLeftSlotBare ==
    \E c \in CallIds :
        /\ calls[c].pc = "done"
        /\ calls[c].op = "refreshAllSlots"
        /\ \E i \in DOMAIN slots :
              /\ slotObj[slots[i]].listIds # {}
              /\ ~HasSelection(slotObj[slots[i]])
              /\ i \in DOMAIN disk.slots
              /\ disk.slots[i].id = slotObj[slots[i]].id
              /\ disk.slots[i].currentSelection # <<>>
              /\ \E k \in DOMAIN calls[c].results :
                    /\ calls[c].results[k].slotId = slotObj[slots[i]].id
                    /\ calls[c].results[k].result.kind = "refresh"
                    /\ ~calls[c].results[k].result.success

(***************************************************************************)
(* Properties of the catalogs served during a batch.                       *)
(***************************************************************************)

\* C34 (as stated): a getItems call made while a refreshAllSlots is suspended
\* in a fetch, for a slot the batch has not yet answered and whose last
\* committed selection the stored configuration still shows, returns the
\* items of that selection, never an empty sequence.
ServesLastCommitted ==
    [][\A catalogId \in CatalogIds, c \in CallIds :
          (/\ GetItems(catalogId)
           /\ calls[c].op = "refreshAllSlots"
           /\ calls[c].pc = "fetch") =>
              \A i \in DOMAIN slots :
                  (/\ catalogId = [prefix |-> CatPrefix, id |-> slotObj[slots[i]].id]
                   /\ slotObj[slots[i]].id \in Range(calls[c].queue)
                   /\ i \in DOMAIN disk.slots
                   /\ disk.slots[i].id = slotObj[slots[i]].id
                   /\ disk.slots[i].currentSelection # <<>>) =>
                      /\ served'[1].metas # <<>>
                      /\ served'[1].metas = disk.slots[i].currentSelection[1].items]_vars

\* C35 (as stated): at every moment the live schedule agrees with the stored
\* settings: a job is scheduled exactly when settings.refreshIntervalHours is
\* above 0, and its interval is that value.
ScheduleAgreesWithSettings ==
    /\ (jobs # NoJobs) <=> (settings.refreshIntervalHours > 0)
    /\ \A j \in Range(job) : jobs[j].interval = settings.refreshIntervalHours

(***************************************************************************)
(* Properties of deleteSlot during a refresh.                              *)
(***************************************************************************)

\* C36: a step of a refreshSlot (single or of a batch) whose slot is no longer
\* in data.slots, be it a retry, a commit or the final failure, leaves
\* data.slots as it is; what a commit saves is the configuration without the
\* slot, a failure saves nothing, and the manifest advertises the same
\* catalogs after the step as before.
DeletedSlotStaysDeleted ==
    [][\A c \in CallIds :
          (/\ calls[c].pc = "fetch"
           /\ calls'[c] # calls[c]
           /\ calls[c].frame.slot \notin Range(slots)) =>
              /\ slots' = slots
              /\ calls[c].frame.slot \notin Range(slots')
              /\ getManifest(mem').catalogs = getManifest(mem).catalogs
              /\ Len(disk'.slots) = Len(slots)
              /\ IF CommitsNow(c) THEN disk' = Serialize(mem') ELSE disk' = disk]_vars

\* C36 (case): a refresh has committed a selection for a slot that was
\* deleted during its fetch; the slot is neither in data.slots nor in the
\* file.
CommittedToDeletedSlot ==
    \E c \in CallIds :
        /\ LoopResult(c)
        /\ calls[c].last.success
        /\ LET f == calls[c].frame
           IN  /\ f.slot \notin Range(slots)
               /\ HasSelection(slotObj[f.slot])
               /\ \A i \in DOMAIN disk.slots : disk.slots[i].id # slotObj[f.slot].id
               /\ \A i \in DOMAIN slots :
                      getManifest(mem).catalogs[i].id.id # slotObj[f.slot].id

(***************************************************************************)
(* Properties of the ids given by addSlot and addList.                     *)
(***************************************************************************)

\* C37 (as stated): a step that appends a slot or a list to a configuration
\* whose slots have pairwise distinct ids and whose lists have pairwise
\* distinct ids leaves one with the same property, whether or not the clock
\* has advanced since the previous creation.
CreatedIdsDistinct ==
    [][LET Distinct(m) ==
               /\ \A i, j \in DOMAIN m.slots :
                      m.slotObj[m.slots[i]].id = m.slotObj[m.slots[j]].id => i = j
               /\ \A i, j \in DOMAIN m.lists :
                      m.listObj[m.lists[i]].id = m.listObj[m.lists[j]].id => i = j
       IN  (/\ Len(slots') > Len(slots) \/ Len(lists') > Len(lists)
            /\ Distinct(mem)) => Distinct(mem')]_vars

(***************************************************************************)
(* Termination of refreshSlot.                                             *)
(***************************************************************************)

\* C38: a refreshSlot call suspended in a fetch eventually returns, given
\* that every adapter call comes back.  Until then the attempts made and the
\* lists left in the pool add up to the size of the selection pool; a failure
\* takes exactly the failed list out of the pool and counts one attempt; and
\* the call returns either a success or, with the last list of the pool
\* failed after as many attempts as the selection pool has lists, a failure.
RefreshTerminates ==
    /\ (calls[1].pc = "fetch") ~> (calls[1].pc = "done")
    /\ [][\A c \in CallIds :
             (calls[c].pc = "fetch" /\ calls'[c] # calls[c]) =>
                 LET f  == calls[c].frame
                     f1 == calls'[c].frame
                 IN  /\ f.attempts + Len(f.pool) = Len(f.selectionPool)
                     /\ Len(f.tried) = f.attempts + 1
                     /\ Len(f.tried) <= Len(f.selectionPool)
                     /\ IF ReturnsNow(c)
                        THEN \/ ResultNow(c).success
                             \/ /\ Len(f.pool) = 1
                                /\ f.attempts + 1 = Len(f.selectionPool)
                        ELSE /\ calls'[c].pc = "fetch"
                             /\ f1.attempts = f.attempts + 1
                             /\ Len(f1.pool) = Len(f.pool) - 1
                             /\ Range(f1.pool) = Range(f.pool) \ {randomList(f)}
                             /\ f1.selectionPool = f.selectionPool]_vars

\* C38 (case): a refresh has returned a failure after every list of a
\* selection pool of several lists was tried once.
PoolExhaustedAfterAllTried ==
    \E c \in CallIds :
        /\ LoopResult(c)
        /\ ~calls[c].last.success
        /\ LET f == calls[c].frame
           IN  /\ Len(f.selectionPool) > 1
               /\ f.attempts = Len(f.selectionPool)
               /\ Range(f.tried) = Range(f.selectionPool)
               /\ f.pool = <<>>

(***************************************************************************)
(* Properties of a save that fails.                                        *)
(***************************************************************************)

\* C39: while the file cannot be written no step changes it, and the
\* operations go on as they do otherwise: a fetch that resolves commits the
\* selection in memory and returns the success it returns when the save
\* succeeds, with no retry; deleteSlot takes the slot out of data.slots; the
\* commit of addList appends the list; and every operation that has started
\* can still come to its end.
SaveFailureNotPropagated ==
    [][~writable =>
          /\ disk' = disk
          /\ \A c \in CallIds, answer \in Answers :
                 \A js \in Draws(Len(answer)) :
                     FetchOk(c, answer, js) =>
                         LET f       == calls[c].frame
                             fetched == FetchFinish(listObj[randomList(f)], f.req[1],
                                                    answer, js)
                         IN  /\ CommitsNow(c)
                             /\ ResultNow(c) = SuccessResult(f, fetched)
                             /\ slotObj'[f.slot].currentSelection
                                    = Commit(mem, f, fetched, now).slotObj[f.slot].currentSelection
          /\ \A id \in SlotIds(mem) : DeleteSlot(id) => id \notin SlotIds(mem')
          /\ \A c \in CallIds :
                 (Validated(c) /\ calls[c].op = "addList") =>
                     /\ Len(lists') = Len(lists) + 1
                     /\ calls'[c].pc = "done"
          /\ \A c \in CallIds :
                 /\ calls[c].pc = "fetch" => calls'[c].pc \in {"fetch", "done"}
                 /\ calls[c].pc = "done" => calls'[c].pc \in {"done", "idle"}]_vars

\* C39 (case): a refresh has succeeded while the file could not be written:
\* its slot shows the new selection in memory and the file shows none.
CommittedWithoutSave ==
    \E c \in CallIds :
        /\ LoopResult(c)
        /\ calls[c].last.success
        /\ ~writable
        /\ \E i \in DOMAIN slots :
              /\ slots[i] = calls[c].frame.slot
              /\ HasSelection(slotObj[slots[i]])
              /\ i \in DOMAIN disk.slots
              /\ disk.slots[i].id = slotObj[slots[i]].id
              /\ disk.slots[i].currentSelection = <<>>

(***************************************************************************)
(* Properties of formatFailReason.                                         *)
(***************************************************************************)

\* C40: the reason recorded for the first failure of a refresh is, for every
\* message, exactly one of five categories, chosen by the first test that
\* matches in the fixed order 404, 401 or 403, empty, Missing, wherever in
\* the message the matches are; a message matching none is "unreachable".
FailReasonPrecedence ==
    \A c \in CallIds :
        calls[c].frame.attempts > 0 =>
            LET msg    == calls[c].frame.failures[1].message
                has(w) == \E i \in DOMAIN msg : msg[i] = w
                reason == calls[c].frame.firstFailReason
            IN  /\ reason \in {"not found", "access denied", "was empty",
                               "invalid config", "unreachable"}
                /\ reason = formatFailReason(msg)
                /\ (reason = "not found") = has("404")
                /\ (reason = "access denied") = (~has("404") /\ (has("401") \/ has("403")))
                /\ (reason = "was empty")
                       = (~has("404") /\ ~has("401") /\ ~has("403") /\ has("empty"))
                /\ (reason = "invalid config")
                       = (/\ ~has("404") /\ ~has("401") /\ ~has("403")
                          /\ ~has("empty") /\ has("Missing"))
                /\ (reason = "unreachable")
                       = (/\ ~has("404") /\ ~has("401") /\ ~has("403")
                          /\ ~has("empty") /\ ~has("Missing"))

\* C40 (case): a first failure whose message says "empty" before "404" is
\* recorded as "not found", and the result of the refresh carries it.
LaterWordEarlierCategory ==
    \E c \in CallIds :
        /\ LoopResult(c)
        /\ calls[c].frame.attempts > 0
        /\ calls[c].frame.failures[1].message = <<"empty", "404">>
        /\ calls[c].last.success
        /\ calls[c].last.failReason = "not found"

====
